---- MODULE Spec2Model ----
(***************************************************************************)
(* Model of yang-zzhong/inf: the in-memory B-tree (btree / node, sorted    *)
(* array) and the block store (blockStore) over a byte store.              *)
(*                                                                         *)
(* Pointers are node ids into the heap `nodes` (0 is nil).  Go slices are  *)
(* modelled as sequence values; slice positions of the source are 0-based  *)
(* and are kept 0-based here (At, Slice).  A Go panic (nil dereference,    *)
(* index out of range, unbounded recursion) is the result Crash.           *)
(***************************************************************************)
EXTENDS Integers, Sequences, FiniteSets, TLC

\* ---------------------------------------------------------------- bounds
NumKeys == 7        \* keys "00" .. "06"
NumBig == 2         \* keys "00" .. that are also put with the big value
MaxNodes == 8       \* Put is not called once the heap holds this many nodes
NumDelKeys == 4     \* keys used by the behaviours that delete
MaxDelNodes == 5    \* as MaxNodes, for the behaviours that delete
MaxDels == 2        \* Del calls per behaviour
NumTallKeys == 11   \* keys "00" .. "10" of the tree with three full levels
MaxTallNodes == 12  \* as MaxNodes, for that tree
MaxTallDels == 1    \* as MaxDels, for that tree
NumArrKeys == 4     \* items "00" .. of the array that is used on its own
MaxArrLen == 4      \* insert is not called once the array holds this many

\* bounds of the block store behaviours
BlockSize == 10     \* Create(v, blockSize)
MaxLen == 7         \* Acquire(lenInBytes) for lenInBytes up to MaxLen
MaxIdx == 4         \* Erase(idx) for idx in 0..MaxIdx
MaxTotal == 2       \* Put is not called when total would pass this
MaxOps == 7         \* store operations per behaviour
MaxFileOps == 5     \* the same, for callers that break the protocol

\* bounds of the concurrent behaviours
NumProcs == 2       \* goroutines that call Put, Del and Get
MaxCalls == 4       \* calls started per behaviour
NumLockKeys == 2    \* keys "00" .. used by the concurrent callers

\* bounds of the behaviours that sync nodes to a block store
NumSyncKeys == 3    \* keys "00" .. put into the tree that is synced
MaxSyncOps == 5     \* Create and sync calls per behaviour

\* ------------------------------------------------------- program constants
TreeTotal == 16     \* NewTree(16), the node byte budget of the tests
magicSize == 16
metaSize == 104
dataStartAt == 128
TypeEmpty == 0
TypeSuper == 1
TypeSingle == 2
TypeChained == 3
TestBlockSize == 512 \* the block size of the tests' store

\* ------------------------------------------------------------- tree state
VARIABLES
    nodes,      \* heap of node records, index = node pointer
    root,       \* btree.root (0 = nil)
    panicked,   \* a panic ended the program
    last,       \* the last operation and what it returned
    contents,   \* history: key -> last value put and not deleted since
    beforeDel,  \* history: key -> what Get answered before the last Del
    dels        \* history: number of Del calls so far

treeVars == <<nodes, root, panicked, last, contents, beforeDel, dels>>

\* ------------------------------------------------------------------ pairs
KeyOf(i) == <<i \div 10, i % 10>>          \* fmt.Sprintf("%02d", i)
Keys == {KeyOf(i) : i \in 0..(NumKeys - 1)}
TallKeys == {KeyOf(i) : i \in 0..(NumTallKeys - 1)}
SmallVal == <<7, 7>>
BigVal == <<8, 8, 8, 8, 8>>
NoVal == <<>>

SP(key, val) == [Key |-> key, Val |-> val]
SK(key) == [Key |-> key, Val |-> NoVal]

PairSize(p) == Len(p.Key) + Len(p.Val)

RECURSIVE bytesCompareFrom(_, _, _)
bytesCompareFrom(a, b, i) ==
    IF i > Len(a) /\ i > Len(b) THEN 0
    ELSE IF i > Len(a) THEN -1
    ELSE IF i > Len(b) THEN 1
    ELSE IF a[i] < b[i] THEN -1
    ELSE IF a[i] > b[i] THEN 1
    ELSE bytesCompareFrom(a, b, i + 1)

PairCompare(p, t) == bytesCompareFrom(p.Key, t.Key, 1)

ElemCompare(p, t) == PairCompare(p.data, t.data)

Elem(data, after) == [data |-> data, after |-> after]

\* ----------------------------------------------------------- sorted array
At(a, i) == a[i + 1]                        \* a[i], 0-based
Slice(a, lo, hi) == SubSeq(a, lo + 1, hi)   \* a[lo:hi], 0-based
InRange(a, i) == i >= 0 /\ i < Len(a)

RECURSIVE shouldBeLoop(_, _, _, _)
shouldBeLoop(a, item, left, right) ==
    IF left > right THEN [pos |-> left, exactly |-> FALSE]
    ELSE LET mid == left + ((right - left) \div 2)
             r == ElemCompare(At(a, mid), item)
         IN IF r = 0 THEN [pos |-> mid, exactly |-> TRUE]
            ELSE IF r > 0 THEN shouldBeLoop(a, item, left, mid - 1)
            ELSE shouldBeLoop(a, item, mid + 1, right)

\* shouldBe that starts the search at index 1
shouldBeSkipsFirst(a, item) ==
    IF Len(a) = 0 THEN [pos |-> 0, exactly |-> FALSE]
    ELSE shouldBeLoop(a, item, 1, Len(a) - 1)

shouldBe(a, item) ==
    IF Len(a) = 0 THEN [pos |-> 0, exactly |-> FALSE]
    ELSE shouldBeLoop(a, item, 0, Len(a) - 1)

\* insertAt splicing one slot too far to the right
insertAtOffByOne(a, idx, item) ==
    LET j == IF idx < Len(a) THEN idx + 1 ELSE idx
    IN Slice(a, 0, j) \o <<item>> \o Slice(a, j, Len(a))

insertAt(a, idx, item) == Slice(a, 0, idx) \o <<item>> \o Slice(a, idx, Len(a))

RemoveAt(a, pos) == Slice(a, 0, pos) \o Slice(a, pos + 1, Len(a))

\* insert that appends without asking shouldBe for the place
insertAtEnd(a, item) == a \o <<item>>

insert(a, item) == insertAt(a, shouldBe(a, item).pos, item)

delete(a, item) ==
    LET sb == shouldBe(a, item)
        idx == sb.pos
    IN IF ~sb.exactly THEN a
       ELSE IF idx = 0 THEN Slice(a, 1, Len(a))
       ELSE Slice(a, 0, idx) \o Slice(a, idx + 1, Len(a))

\* ------------------------------------------------------------------ nodes
NewNode(elems, first, p) ==
    [elems |-> elems, first |-> first, p |-> p, block |-> 0, synced |-> FALSE]

Ret(h, r) == [h |-> h, r |-> r, ok |-> TRUE]
Crash == [h |-> <<>>, r |-> 0, ok |-> FALSE]

Fuel(h) == 2 * Len(h) + 4

RECURSIVE rootOf(_, _, _)
rootOf(h, n, fuel) ==
    IF fuel = 0 THEN Crash
    ELSE IF h[n].p # 0 THEN rootOf(h, h[n].p, fuel - 1)
    ELSE Ret(h, n)

RECURSIVE sumSizes(_)
sumSizes(elems) ==
    IF elems = <<>> THEN 0
    ELSE PairSize(Head(elems).data) + sumSizes(Tail(elems))

shouldUse(h, n) == 6 + sumSizes(h[n].elems)

overflow(h, n) == shouldUse(h, n) > TreeTotal

leaf(h, n) ==
    /\ h[n].first = 0
    /\ \A i \in 1..Len(h[n].elems) : h[n].elems[i].after = 0

\* after.p = nn for every element of elems that has an after child
RECURSIVE reparent(_, _, _)
reparent(h, elems, nn) ==
    IF elems = <<>> THEN h
    ELSE LET c == Head(elems).after
             h1 == IF c # 0 THEN [h EXCEPT ![c].p = nn] ELSE h
         IN reparent(h1, Tail(elems), nn)

\* split that cuts one element to the left of pos
splitEarly(h, n, pos) ==
    LET cut == IF pos > 0 THEN pos - 1 ELSE pos
        p == At(h[n].elems, cut)
        nd == Slice(h[n].elems, 0, cut)
        nnd == Slice(h[n].elems, cut + 1, Len(h[n].elems))
        nn == Len(h) + 1
        h1 == Append([h EXCEPT ![n].elems = nd], NewNode(nnd, 0, 0))
        h2 == reparent(h1, nnd, nn)
        h3 == IF p.after # 0
              THEN [h2 EXCEPT ![p.after].p = nn, ![nn].first = p.after]
              ELSE h2
    IN [h |-> h3, nn |-> nn, p |-> Elem(p.data, nn)]

\* node.split: [h, nn, p]; nn = 0 when nothing is left for a right sibling
split(h, n, pos) ==
    LET p == At(h[n].elems, pos)
        r == Len(h[n].elems) - pos - 1
    IN IF r <= 0 THEN [h |-> h, nn |-> 0, p |-> p]
       ELSE LET nd == Slice(h[n].elems, 0, pos)
                nnd == Slice(h[n].elems, pos + 1, Len(h[n].elems))
                nn == Len(h) + 1
                h1 == Append([h EXCEPT ![n].elems = nd], NewNode(nnd, 0, 0))
                h2 == reparent(h1, nnd, nn)
                h3 == IF p.after # 0
                      THEN [h2 EXCEPT ![p.after].p = nn, ![nn].first = p.after]
                      ELSE h2
            IN [h |-> h3, nn |-> nn, p |-> Elem(p.data, nn)]

RECURSIVE popup(_, _, _)

\* popup after nn, p := n.split(len(n.elems) / 2), sp being what split returned
popupSplit(sp, n, fuel) ==
    IF sp.nn = 0 THEN Crash                   \* nn.p = n.p on a nil nn
    ELSE IF sp.h[n].p = 0
    THEN LET np == Len(sp.h) + 1
             h1 == Append(sp.h, NewNode(<<sp.p>>, n, 0))
         IN Ret([h1 EXCEPT ![n].p = np, ![sp.nn].p = np], np)
    ELSE LET par == sp.h[n].p
             h1 == [sp.h EXCEPT ![sp.nn].p = par]
             pos == shouldBe(h1[par].elems, sp.p).pos
         IN popup([h1 EXCEPT ![par].elems = insertAt(@, pos, sp.p)], par,
                  fuel - 1)

popup(h, n, fuel) ==
    IF fuel = 0 THEN Crash
    ELSE IF ~overflow(h, n) THEN rootOf(h, n, fuel)
    ELSE LET pos == Len(h[n].elems) \div 2 IN
         IF ~InRange(h[n].elems, pos) THEN Crash
         ELSE popupSplit(split(h, n, pos), n, fuel)

RECURSIVE put(_, _, _, _)

\* put that replaces an element without keeping its after pointer
putDropsAfter(h, n, data, fuel) ==
    IF fuel = 0 THEN Crash
    ELSE
    LET sb == shouldBe(h[n].elems, Elem(data, 0))
        pos == sb.pos
    IN IF sb.exactly
       THEN rootOf([h EXCEPT ![n].elems[pos + 1] = Elem(data, 0)], n, fuel)
       ELSE IF pos = 0 /\ h[n].first # 0
       THEN put(h, h[n].first, data, fuel - 1)
       ELSE IF pos # 0 /\ At(h[n].elems, pos - 1).after # 0
       THEN put(h, At(h[n].elems, pos - 1).after, data, fuel - 1)
       ELSE popup([h EXCEPT ![n].elems = insertAt(@, pos, Elem(data, 0))], n, fuel)

put(h, n, data, fuel) ==
    IF fuel = 0 THEN Crash
    ELSE
    LET sb == shouldBe(h[n].elems, Elem(data, 0))
        pos == sb.pos
    IN IF sb.exactly
       THEN LET p == Elem(data, At(h[n].elems, pos).after)
            IN rootOf([h EXCEPT ![n].elems[pos + 1] = p], n, fuel)
       ELSE IF pos = 0 /\ h[n].first # 0
       THEN put(h, h[n].first, data, fuel - 1)
       ELSE IF pos # 0 /\ At(h[n].elems, pos - 1).after # 0
       THEN put(h, At(h[n].elems, pos - 1).after, data, fuel - 1)
       ELSE popup([h EXCEPT ![n].elems = insertAt(@, pos, Elem(data, 0))], n, fuel)

\* node.get: [found, data] or Crash
NotFound == [ok |-> TRUE, found |-> FALSE, data |-> SK(<<>>)]
Found(d) == [ok |-> TRUE, found |-> TRUE, data |-> d]
GetCrash == [ok |-> FALSE, found |-> FALSE, data |-> SK(<<>>)]

RECURSIVE get(_, _, _, _)
get(h, n, data, fuel) ==
    IF fuel = 0 THEN GetCrash
    ELSE
    LET sb == shouldBe(h[n].elems, Elem(data, 0))
        pos == sb.pos
    IN IF sb.exactly THEN Found(At(h[n].elems, pos).data)
       ELSE IF pos = 0
       THEN IF h[n].first # 0 THEN get(h, h[n].first, data, fuel - 1)
            ELSE NotFound
       ELSE LET child == At(h[n].elems, pos - 1).after
            IN IF child = 0 THEN NotFound
               ELSE get(h, child, data, fuel - 1)

\* ---------------------------------------------------------------- deletion
\* mergeRight, mergeLeft and merge call each other and popup
RECURSIVE merge(_, _, _, _)

\* the tail shared by mergeRight and mergeLeft: n.popup(), then the parent
mergeParent(pu, n, np, fuel) ==
    IF ~pu.ok THEN Crash
    ELSE LET par == pu.h[n].p IN
         IF Len(pu.h[par].elems) = 0 /\ pu.h[par].p # 0
         THEN merge(pu.h, par, np, fuel - 1)
         ELSE rootOf(pu.h, n, fuel)

mergeTail(h, n, np, fuel) == mergeParent(popup(h, n, fuel), n, np, fuel)

mergeRight(h, n, pos, p, fuel) ==
    LET par == h[n].p IN
    IF ~InRange(h[par].elems, pos) THEN Crash
    ELSE
    LET np0 == At(h[par].elems, pos)
        after == np0.after
        np == IF after # 0 THEN Elem(np0.data, h[after].first) ELSE np0
        h1 == IF after # 0
              THEN LET ha == IF h[after].first # 0
                             THEN [h EXCEPT ![h[after].first].p = n]
                             ELSE h
                   IN [ha EXCEPT ![n].elems = <<np>> \o h[after].elems]
              ELSE h
        h2 == IF p.after # 0
              THEN LET hf == IF h1[n].first # 0
                             THEN [h1 EXCEPT ![p.after].elems =
                                      h1[h1[n].first].elems \o h1[p.after].elems]
                             ELSE h1
                   IN [hf EXCEPT ![n].first = p.after]
              ELSE h1
        h3 == [h2 EXCEPT ![par].elems = RemoveAt(@, pos)]
    IN mergeTail(h3, n, np, fuel)

mergeLeft(h, n, pos0, p0, fuel) ==
    LET par == h[n].p
        pos == pos0 - 1
    IN IF ~InRange(h[par].elems, pos) THEN Crash
    ELSE
    LET np == At(h[par].elems, pos)
        first == h[n].first
        wantMove == p0.after = 0 /\ first # 0
    IN IF wantMove /\ Len(h[first].elems) = 0 THEN Crash  \* n.first.elems[0]
    ELSE
    LET move == wantMove /\ ElemCompare(np, At(h[first].elems, 0)) < 0
        p == Elem(np.data, IF move THEN first ELSE p0.after)
        h1 == [h EXCEPT ![n].first = IF move THEN 0 ELSE @,
                        ![n].elems = <<p>>,
                        ![par].elems = RemoveAt(@, pos)]
        ppos == pos - 1
        pf == h1[par].first
        viaFirst == ppos = -1 /\ pf # 0
    IN IF ~viaFirst /\ ~InRange(h1[par].elems, ppos) THEN Crash
       ELSE LET bnp == IF viaFirst THEN Elem(np.data, 0)
                       ELSE At(h1[par].elems, ppos)
                h2 == IF viaFirst
                      THEN [h1 EXCEPT ![n].elems = h1[pf].elems \o @,
                                      ![n].first = h1[pf].first,
                                      ![par].first = n]
                      ELSE IF bnp.after # 0
                      THEN [h1 EXCEPT ![n].elems = h1[bnp.after].elems \o @,
                                      ![par].elems[ppos + 1] = Elem(bnp.data, n)]
                      ELSE h1
            IN mergeTail(h2, n, np, fuel)

merge(h, n, p, fuel) ==
    IF fuel = 0 THEN Crash
    ELSE IF h[n].p = 0 THEN Ret(h, n)
    ELSE LET pos == shouldBe(h[h[n].p].elems, p).pos IN
         IF pos = 0 THEN mergeRight(h, n, pos, p, fuel)
         ELSE mergeLeft(h, n, pos, p, fuel)

delLeaf(h, n, pos, fuel) ==
    IF ~InRange(h[n].elems, pos) THEN Crash
    ELSE LET p == At(h[n].elems, pos)
             h1 == [h EXCEPT ![n].elems = RemoveAt(@, pos)]
         IN IF Len(h1[n].elems) # 0 THEN rootOf(h1, n, fuel)
            ELSE merge(h1, n, p, fuel)

delNonLeaf(h, n, pos, fuel) ==
    IF ~InRange(h[n].elems, pos) THEN Crash
    ELSE LET p == At(h[n].elems, pos)
             h1 == [h EXCEPT ![n].elems = RemoveAt(@, pos)]
         IN IF Len(h1[n].elems) = 0 THEN merge(h1, n, p, fuel)
            ELSE rootOf(h1, n, fuel)

RECURSIVE del(_, _, _, _)
del(h, n, data, fuel) ==
    IF fuel = 0 THEN Crash
    ELSE
    LET sb == shouldBe(h[n].elems, Elem(data, 0))
        pos == sb.pos
    IN IF ~sb.exactly /\ pos = 0 /\ h[n].first # 0
       THEN del(h, h[n].first, data, fuel - 1)
       ELSE IF ~sb.exactly /\ pos # 0 /\ At(h[n].elems, pos - 1).after # 0
       THEN del(h, At(h[n].elems, pos - 1).after, data, fuel - 1)
       ELSE IF leaf(h, n) THEN delLeaf(h, n, pos, fuel)
       ELSE delNonLeaf(h, n, pos, fuel)

\* ------------------------------------------------------------- btree layer
\* btree.Put / btree.Del / btree.Get as functions of (heap, root)
treePut(h, rt, data) ==
    IF rt = 0
    THEN Ret(Append(h, NewNode(<<Elem(data, 0)>>, 0, 0)), Len(h) + 1)
    ELSE put(h, rt, data, Fuel(h))

\* Del that keeps a root left without elements
treeDelRootKeepsEmpty(d) ==
    IF ~d.ok THEN Crash ELSE d

\* Del after tree.root = tree.root.del(data), d being what del returned
treeDelRoot(d) ==
    IF ~d.ok THEN Crash
    ELSE IF Len(d.h[d.r].elems) = 0 THEN Ret(d.h, d.h[d.r].first)
    ELSE d

treeDel(h, rt, data) ==
    IF rt = 0 THEN Crash                       \* tree.root.del on a nil root
    ELSE treeDelRoot(del(h, rt, data, Fuel(h)))

treeGet(h, rt, data) ==
    IF rt = 0 THEN GetCrash                    \* tree.root.get on a nil root
    ELSE get(h, rt, data, Fuel(h))

\* ------------------------------------------------------------ tree actions
Absent == <<>>

\* what Get(k) answers on the tree (h, rt): the value, or Absent
Lookup(h, rt, k) ==
    LET r == treeGet(h, rt, SK(k)) IN
    IF r.ok /\ r.found THEN r.data.Val ELSE Absent

\* history: the element Get(k) answered on (h, rt), for the record of a Put
Held(h, rt, k) == IF rt = 0 THEN NotFound ELSE treeGet(h, rt, SK(k))

View(h, rt) == [k \in Keys |-> Lookup(h, rt, k)]
NoView == [k \in Keys |-> Absent]

NoOp == [op |-> "none", key |-> <<>>, res |-> NotFound]

TreeInit ==
    /\ nodes = <<>>
    /\ root = 0
    /\ panicked = FALSE
    /\ last = NoOp
    /\ contents = [k \in Keys \cup TallKeys |-> Absent]
    /\ beforeDel = NoView
    /\ dels = 0

Put(k, v) ==
    /\ ~panicked
    /\ \E r \in {treePut(nodes, root, SP(k, v))} :
       IF r.ok
       THEN /\ nodes' = r.h
            /\ root' = r.r
            /\ contents' = [contents EXCEPT ![k] = v]
            /\ UNCHANGED panicked
       ELSE /\ panicked' = TRUE
            /\ UNCHANGED <<nodes, root, contents>>
    /\ last' = [op |-> "Put", key |-> k, res |-> Held(nodes, root, k)]
    /\ beforeDel' = NoView
    /\ UNCHANGED dels

Del(k) ==
    /\ ~panicked
    /\ \E r \in {treeDel(nodes, root, SK(k))} :
       IF r.ok
       THEN /\ nodes' = r.h
            /\ root' = r.r
            /\ contents' = [contents EXCEPT ![k] = Absent]
            /\ UNCHANGED panicked
       ELSE /\ panicked' = TRUE
            /\ UNCHANGED <<nodes, root, contents>>
    /\ last' = [op |-> "Del", key |-> k, res |-> NotFound]
    /\ beforeDel' = View(nodes, root)
    /\ dels' = dels + 1

Get(k) ==
    /\ ~panicked
    /\ \E r \in {treeGet(nodes, root, SK(k))} :
       /\ panicked' = ~r.ok
       /\ last' = [op |-> "Get", key |-> k, res |-> r]
    /\ beforeDel' = NoView
    /\ UNCHANGED <<nodes, root, contents, dels>>

AnyKeys == Keys \cup {KeyOf(99)}

\* the pairs handed to Put
Pairs ==
    {SP(k, SmallVal) : k \in Keys}
        \cup {SP(KeyOf(i), BigVal) : i \in 0..(NumBig - 1)}

\* ============================================================ block store
\* --------------------------------------------------------------- encoding
U16be(x) == <<(x \div 256) % 256, x % 256>>
U32be(x) ==
    <<(x \div 16777216) % 256, (x \div 65536) % 256, (x \div 256) % 256, x % 256>>
BeU16(b) == b[1] * 256 + b[2]
BeU32(b) == b[1] * 16777216 + b[2] * 65536 + b[3] * 256 + b[4]

Min(a, b) == IF a < b THEN a ELSE b
Max(a, b) == IF a > b THEN a ELSE b

\* copy(buf[off:], bytes) on a buffer long enough
Overwrite(buf, off, bytes) ==
    [i \in 1..Len(buf) |->
        IF i > off /\ i <= off + Len(bytes) THEN bytes[i - off] ELSE buf[i]]

\* Seek(off) and Write(bytes) on the block area of the file: a write past the
\* end leaves a hole of zero bytes
WriteFile(blk, off, bytes) ==
    IF Len(bytes) = 0 THEN blk
    ELSE [i \in 1..Max(Len(blk), off + Len(bytes)) |->
            IF i > off /\ i <= off + Len(bytes) THEN bytes[i - off]
            ELSE IF i <= Len(blk) THEN blk[i]
            ELSE 0]

\* Seek(off) and Read(n bytes): the bytes the file has there (none at EOF)
ReadFile(blk, off, n) == SubSeq(blk, off + 1, Min(Len(blk), off + n))

\* ------------------------------------------------------------ store state
VARIABLES
    s,          \* the blockStore struct
    disk,       \* the byte store: magic, metadata record, block area
    pagebuf,    \* the buffer pagePool hands out
    plan,       \* the blocks the last Acquire returned
    planLen,    \* the length that Acquire was asked for
    planFresh,  \* no Put, Erase, Create or Open since that Acquire
    slast,      \* the last store operation and what it returned
    pre,        \* history: struct and disk before the last operation
    ops         \* history: the number of operations so far

storeVars == <<s, disk, pagebuf, plan, planLen, planFresh, slast, pre, ops>>

\* ------------------------------------------------------------- lock state
VARIABLES
    lock,       \* btree.lock: the goroutine that holds it for writing (0 =
                \* none) and the goroutines that hold it for reading
    pc,         \* each goroutine's call of Put, Del or Get and where it is
    calls       \* history: number of calls started

lockVars == <<lock, pc, calls>>

\* ------------------------------------------------------------ array state
VARIABLES
    arr,        \* an array that is used on its own, as in array_test.go
    alast       \* history: the last call on arr, its argument, the array
                \* before it and what it returned

arrayVars == <<arr, alast>>
vars == <<treeVars, storeVars, lockVars, arrayVars>>

Procs == 1..NumProcs

Idle == [at |-> "idle", op |-> "none", key |-> <<>>]
ArrayNoOp == [op |-> "none", item |-> <<>>, before |-> <<>>, out |-> <<>>]

\* a := &array{}
ArrayInit ==
    /\ arr = <<>>
    /\ alast = ArrayNoOp

LockInit ==
    /\ lock = [writer |-> 0, readers |-> {}]
    /\ pc = [p \in Procs |-> Idle]
    /\ calls = 0

VZero == <<0, 0, 0, 0, 0, 0>>
V010000 == U16be(1) \o U16be(0) \o U16be(0)
Magic == "f.blk"

ZeroBuf == [i \in 1..BlockSize |-> 0]

NewStore ==
    [v |-> VZero, blockSize |-> 0, freeHead |-> 0, freeTail |-> 0,
     total |-> 0, prepared |-> FALSE]

EmptyDisk == [magic |-> "", meta |-> <<>>, blk |-> <<>>]

FileSize(d) ==
    IF d.blk # <<>> THEN dataStartAt + Len(d.blk)
    ELSE IF d.meta # <<>> THEN magicSize + metaSize
    ELSE IF d.magic # "" THEN magicSize
    ELSE 0

Block(t, next, data, size, idx, allocate) ==
    [Type |-> t, Next |-> next, Data |-> data, size |-> size, idx |-> idx,
     allocate |-> allocate]
ZeroBlock == Block(0, 0, <<>>, 0, 0, FALSE)

\* a world: the struct, the disk and the pooled buffer an operation works on
World(st, d, buf) == [s |-> st, disk |-> d, buf |-> buf]
Ok(w) == [w |-> w, err |-> "", panic |-> FALSE]
Err(w, e) == [w |-> w, err |-> e, panic |-> FALSE]

DataSize(st) == (st.blockSize - 7) % 65536
blockAt(st, idx) == dataStartAt + st.blockSize * idx

syncMetaData(w) ==
    LET bs == U16be(w.s.blockSize) \o U32be(w.s.freeHead) \o U32be(w.s.freeTail)
                \o U32be(w.s.total) \o w.s.v
    IN [w EXCEPT !.disk.meta = bs]

\* putPage without the check of the payload length
putPageAnyLength(w, idx, t, next, data) ==
    LET bs1 == Overwrite(w.buf, 0, <<t>> \o U16be(Len(data)))
        hl == IF t = TypeChained THEN 7 ELSE 3
        bs2 == IF t = TypeChained THEN Overwrite(bs1, 3, U32be(next)) ELSE bs1
        bs3 == Overwrite(bs2, hl, SubSeq(data, 1, Min(Len(data), Len(bs2) - hl)))
        pos == blockAt(w.s, idx) - dataStartAt
    IN Ok([w EXCEPT !.buf = bs3,
                    !.disk.blk = WriteFile(@, pos,
                                    SubSeq(bs3, 1, Min(hl + Len(data), Len(bs3))))])

putPage(w, idx, t, next, data) ==
    LET bs1 == Overwrite(w.buf, 0, <<t>> \o U16be(Len(data)))
        hl == IF t = TypeChained THEN 7 ELSE 3
        bs2 == IF t = TypeChained THEN Overwrite(bs1, 3, U32be(next)) ELSE bs1
        max == w.s.blockSize - hl
    IN IF Len(data) > max
       THEN Err([w EXCEPT !.buf = bs2], "max user data length")
       ELSE LET bs3 == Overwrite(bs2, hl, data)
                pos == blockAt(w.s, idx) - dataStartAt
            IN Ok([w EXCEPT !.buf = bs3,
                            !.disk.blk = WriteFile(@, pos,
                                            SubSeq(bs3, 1, hl + Len(data)))])

\* [w, next, err, panic]
nextFreeBlock(w, freeIdx) ==
    LET pos == blockAt(w.s, freeIdx) - dataStartAt
        got == ReadFile(w.disk.blk, pos, 7)
        bs == Overwrite(w.buf, 0, got)
        w1 == [w EXCEPT !.buf = bs]
    IN IF Len(got) = 0
       THEN [w |-> w, next |-> 0, err |-> "EOF", panic |-> FALSE]
       ELSE IF bs[1] # TypeEmpty
       THEN [w |-> w1, next |-> 0, err |-> "panic", panic |-> TRUE]
       ELSE [w |-> w1, next |-> BeU32(SubSeq(bs, 4, 7)), err |-> "",
             panic |-> FALSE]

ensureFails(w) == ~w.s.prepared
NotPrepared == "you should call Open or Create before any operation"

\* ---------------------------------------------------------------- Acquire
\* the quotient rounded down instead of up
CeilDivFloor(a, b) == a \div b

CeilDiv(a, b) == (a + b - 1) \div b

\* the allocate blocks of a plan: positions setted .. count-1 (0-based)
acquireFresh(st, blocks, setted, count, ty) ==
    [i \in 1..count |->
        IF i - 1 < setted THEN blocks[i]
        ELSE LET idx == st.total + (i - 1) - setted + 1
             IN Block(ty, IF i - 1 = count - 1 THEN 0 ELSE idx + 1, <<>>,
                      (st.blockSize - 7) % 65536, idx, TRUE)]

\* the loop that walks the free list: [w, blocks, err, panic]
RECURSIVE acquireReuse(_, _, _, _, _, _)
acquireReuse(w, blocks, i, freeIdx, count, ty) ==
    IF i >= count \/ freeIdx = 0 \/ freeIdx = w.s.total + 1
    THEN [w |-> w, blocks |-> acquireFresh(w.s, blocks, i, count, ty),
          err |-> "", panic |-> FALSE]
    ELSE LET nf == nextFreeBlock(w, freeIdx) IN
         IF nf.err # ""
         THEN [w |-> nf.w, blocks |-> blocks, err |-> nf.err, panic |-> nf.panic]
         ELSE LET next == IF i = count - 1 THEN 0
                          ELSE IF nf.next = 0 THEN w.s.total + 1
                          ELSE nf.next
                  b == Block(ty, next, <<>>, DataSize(w.s), freeIdx, FALSE)
              IN acquireReuse(nf.w, [blocks EXCEPT ![i + 1] = b], i + 1, next,
                              count, ty)

Acquire(w, lenInBytes) ==
    LET count == CeilDiv(lenInBytes, DataSize(w.s))
        blocks == [i \in 1..count |-> ZeroBlock]
        ty == IF count > 0 THEN TypeChained ELSE TypeSingle
    IN IF ensureFails(w)
       THEN [w |-> w, blocks |-> blocks, err |-> NotPrepared, panic |-> FALSE]
       ELSE acquireReuse(w, blocks, 0, w.s.freeHead, count, ty)

\* -------------------------------------------------------------------- Put
\* the loop of Put over pages[i..], with the running freeHead
RECURSIVE putLoop(_, _, _, _)
putLoop(w, pages, i, freeHead) ==
    IF i > Len(pages)
    THEN LET w1 == [w EXCEPT !.s.freeHead = freeHead]
             w2 == IF w1.s.freeHead = 0 THEN [w1 EXCEPT !.s.freeTail = 0] ELSE w1
         IN Ok(syncMetaData(w2))
    ELSE LET pg == pages[i] IN
         IF pg.Type = TypeEmpty THEN Err(w, "can't put free block")
         ELSE IF pg.Type = TypeSuper /\ pg.idx # 0
         THEN Err(w, "super block must at position 0")
         ELSE IF ~pg.allocate /\ pg.idx # freeHead
         THEN Err(w, "put must begin with free head")
         ELSE LET pp == putPage(w, pg.idx, pg.Type, pg.Next, pg.Data) IN
              IF pp.err # "" THEN pp
              ELSE LET w1 == IF pg.allocate
                             THEN [pp.w EXCEPT !.s.total = @ + 1]
                             ELSE pp.w
                   IN IF i = Len(pages) THEN putLoop(w1, pages, i + 1, freeHead)
                      ELSE IF pages[i + 1].allocate
                      THEN putLoop([w1 EXCEPT !.s.freeTail = 0], pages, i + 1, 0)
                      ELSE LET nf == nextFreeBlock(w1, freeHead) IN
                           IF nf.err # ""
                           THEN [w |-> nf.w, err |-> nf.err, panic |-> nf.panic]
                           ELSE putLoop(nf.w, pages, i + 1, nf.next)

PutBlocks(w, pages) ==
    IF ensureFails(w) THEN Err(w, NotPrepared)
    ELSE putLoop(w, pages, 1, w.s.freeHead)

\* ------------------------------------------------------------------ Erase
\* Erase that links the tail but forgets the head of an empty list
EraseTailOnly(w, idx) ==
    IF ensureFails(w) THEN Err(w, NotPrepared)
    ELSE IF idx = 0 THEN Err(w, "super block can not be erased")
    ELSE LET p1 == putPage(w, idx, TypeEmpty, 0, <<>>) IN
         IF p1.err # "" THEN p1
         ELSE Ok(syncMetaData([p1.w EXCEPT !.s.freeTail = idx]))

Erase(w, idx) ==
    IF ensureFails(w) THEN Err(w, NotPrepared)
    ELSE IF idx = 0 THEN Err(w, "super block can not be erased")
    ELSE LET p1 == putPage(w, idx, TypeEmpty, 0, <<>>) IN
         IF p1.err # "" THEN p1
         ELSE LET p2 == IF p1.w.s.freeTail # 0
                        THEN putPage(p1.w, p1.w.s.freeTail, TypeEmpty, idx, <<>>)
                        ELSE p1
              IN IF p2.err # "" THEN p2
                 ELSE LET w1 == [p2.w EXCEPT !.s.freeTail = idx]
                          w2 == IF w1.s.freeHead = 0
                                THEN [w1 EXCEPT !.s.freeHead = idx]
                                ELSE w1
                      IN Ok(syncMetaData(w2))

\* -------------------------------------------------------- Get, From, WriteTo
\* [w, block, err, panic]
GetBlock(w, idx) ==
    IF ensureFails(w)
    THEN [w |-> w, block |-> ZeroBlock, err |-> NotPrepared, panic |-> FALSE]
    ELSE
    LET pos == blockAt(w.s, idx) - dataStartAt
        got == ReadFile(w.disk.blk, pos, Len(w.buf))
        bs == Overwrite(w.buf, 0, got)
        w1 == [w EXCEPT !.buf = bs]
        ty == bs[1]
        size == BeU16(SubSeq(bs, 2, 3))
        hl == IF ty = TypeChained THEN 7 ELSE 3
        next == IF ty = TypeChained THEN BeU32(SubSeq(bs, 4, 7)) ELSE 0
    IN IF Len(got) = 0
       THEN [w |-> w, block |-> ZeroBlock, err |-> "EOF", panic |-> FALSE]
       ELSE IF hl + size > Len(bs)
       THEN [w |-> w1, block |-> ZeroBlock, err |-> "panic", panic |-> TRUE]
       ELSE [w |-> w1,
             block |-> Block(ty, next, SubSeq(bs, hl + 1, hl + size), size, idx,
                             FALSE),
             err |-> "", panic |-> FALSE]

\* [w, blocks, err, panic]; err = "loop" when the chain never ends
RECURSIVE fromLoop(_, _, _, _)
fromLoop(w, i, blocks, fuel) ==
    IF fuel = 0 THEN [w |-> w, blocks |-> blocks, err |-> "loop", panic |-> FALSE]
    ELSE LET g == GetBlock(w, i) IN
         IF g.err # ""
         THEN [w |-> g.w, blocks |-> blocks, err |-> g.err, panic |-> g.panic]
         ELSE LET bl == Append(blocks, g.block) IN
              IF g.block.Type # TypeChained \/ g.block.Next = 0
              THEN [w |-> g.w, blocks |-> bl, err |-> "", panic |-> FALSE]
              ELSE fromLoop(g.w, g.block.Next, bl, fuel - 1)

From(w, idx) == fromLoop(w, idx, <<>>, Len(w.disk.blk) + 2)

RECURSIVE concatData(_)
concatData(blocks) ==
    IF blocks = <<>> THEN <<>>
    ELSE Head(blocks).Data \o concatData(Tail(blocks))

\* [w, blocks, out, err, panic]: out is what the writer received
WriteTo(w, idx) ==
    LET f == From(w, idx) IN
    [w |-> f.w, blocks |-> f.blocks, err |-> f.err, panic |-> f.panic,
     out |-> IF f.err = "" THEN concatData(f.blocks) ELSE <<>>]

\* ------------------------------------------------------------ Create, Open
\* Create that marks the store prepared before it looks at the byte store
CreatePreparedFirst(w, v, blockSize) ==
    LET w0 == [w EXCEPT !.s.v = v, !.s.blockSize = blockSize,
                        !.s.prepared = TRUE] IN
    IF FileSize(w0.disk) # 0 THEN Err(w0, "rwsc exists")
    ELSE LET w1 == syncMetaData([w0 EXCEPT !.disk.magic = Magic])
         IN putPage(w1, 0, TypeSuper, 0, <<>>)

Create(w, v, blockSize) ==
    LET w0 == [w EXCEPT !.s.v = v, !.s.blockSize = blockSize] IN
    IF FileSize(w0.disk) # 0 THEN Err(w0, "rwsc exists")
    ELSE LET w1 == syncMetaData([w0 EXCEPT !.disk.magic = Magic])
             pp == putPage(w1, 0, TypeSuper, 0, <<>>)
         IN IF pp.err # "" THEN pp
            ELSE Ok([pp.w EXCEPT !.s.prepared = TRUE])

Open(w) ==
    IF FileSize(w.disk) = 0 THEN Err(w, "rwsc not exists")
    ELSE IF w.disk.magic # Magic THEN Err(w, "malformed format")
    ELSE LET bs == w.disk.meta IN
         IF Len(bs) < 20 \/ SubSeq(bs, 15, 20) # V010000
         THEN Err(w, "unsupported version")
         ELSE Ok([w EXCEPT !.s.blockSize = BeU16(SubSeq(bs, 1, 2)),
                           !.s.freeHead = BeU32(SubSeq(bs, 3, 6)),
                           !.s.freeTail = BeU32(SubSeq(bs, 7, 10)),
                           !.s.total = BeU32(SubSeq(bs, 11, 14)),
                           !.s.prepared = TRUE])

\* ---------------------------------------------------------- store actions
SNone == [op |-> "New", arg |-> 0, fresh |-> FALSE, err |-> "", out |-> <<>>]
SLast(op, arg, fresh, err, out) ==
    [op |-> op, arg |-> arg, fresh |-> fresh, err |-> err, out |-> out]

StoreInit ==
    /\ s = NewStore
    /\ disk = EmptyDisk
    /\ pagebuf = ZeroBuf
    /\ plan = <<>>
    /\ planLen = 0
    /\ planFresh = FALSE
    /\ slast = SNone
    /\ pre = [s |-> NewStore, disk |-> EmptyDisk]
    /\ ops = 0

Init == TreeInit /\ StoreInit /\ LockInit /\ ArrayInit

W == World(s, disk, pagebuf)

\* the world an operation leaves behind, and the one it started from
Leaves(r) ==
    /\ s' = r.w.s
    /\ disk' = r.w.disk
    /\ pagebuf' = r.w.buf
    /\ panicked' = r.panic
    /\ pre' = [s |-> s, disk |-> disk]
    /\ ops' = ops + 1
    /\ UNCHANGED <<nodes, root, last, contents, beforeDel, dels, lockVars, arrayVars>>

\* New(rwsNew).Create(V010000, BlockSize)
SCreate ==
    /\ ~panicked /\ ops < MaxOps /\ ~s.prepared
    /\ LET r == Create(World(NewStore, disk, ZeroBuf), V010000, BlockSize) IN
       /\ Leaves(r)
       /\ slast' = SLast("Create", BlockSize, FALSE, r.err, <<>>)
    /\ planFresh' = FALSE
    /\ UNCHANGED <<plan, planLen>>

\* Close(), then New(rwsNew).Open()
SOpen ==
    /\ ~panicked /\ ops < MaxOps /\ s.prepared
    /\ LET r == Open(World(NewStore, disk, ZeroBuf)) IN
       /\ Leaves(r)
       /\ slast' = SLast("Open", 0, FALSE, r.err, <<>>)
    /\ planFresh' = FALSE
    /\ UNCHANGED <<plan, planLen>>

SAcquire(lenInBytes) ==
    /\ ~panicked /\ ops < MaxOps
    /\ LET r == Acquire(W, lenInBytes) IN
       /\ Leaves(r)
       /\ slast' = SLast("Acquire", lenInBytes, FALSE, r.err, r.blocks)
       /\ plan' = IF r.err = "" THEN r.blocks ELSE <<>>
       /\ planFresh' = (r.err = "")
    /\ planLen' = lenInBytes

\* the bytes the caller stores, and the slice of them that goes to block i
Payload(n) == [j \in 1..n |-> j]
SliceOf(blocks, n, i) ==
    SubSeq(Payload(n), (i - 1) * blocks[i].size + 1, Min(i * blocks[i].size, n))

\* the plan with its Data set: "slices" as the payload is split, "oversize"
\* with one byte too many in the last block
Fill(blocks, n, mode) ==
    [i \in 1..Len(blocks) |->
        [blocks[i] EXCEPT !.Data =
            IF mode = "oversize" /\ i = Len(blocks)
            THEN [j \in 1..(blocks[i].size + 1) |-> j]
            ELSE SliceOf(blocks, n, i)]]

Allocates(blocks) == Cardinality({i \in 1..Len(blocks) : blocks[i].allocate})

SPut(mode) ==
    /\ ~panicked /\ ops < MaxOps
    /\ planFresh \/ plan # <<>>
    /\ mode = "oversize" => plan # <<>>
    /\ s.total + Allocates(plan) <= MaxTotal
    /\ LET r == PutBlocks(W, Fill(plan, planLen, mode)) IN
       /\ Leaves(r)
       /\ slast' = SLast("Put", mode, planFresh, r.err, <<>>)
    /\ planFresh' = FALSE
    /\ UNCHANGED <<plan, planLen>>

SErase(idx) ==
    /\ ~panicked /\ ops < MaxOps
    /\ LET r == Erase(W, idx) IN
       /\ Leaves(r)
       /\ slast' = SLast("Erase", idx, FALSE, r.err, <<>>)
    /\ planFresh' = FALSE
    /\ UNCHANGED <<plan, planLen>>

SGet(idx) ==
    /\ ~panicked /\ ops < MaxOps
    /\ LET r == GetBlock(W, idx) IN
       /\ Leaves(r)
       /\ slast' = SLast("Get", idx, FALSE, r.err, r.block)
    /\ UNCHANGED <<plan, planLen, planFresh>>

SWriteTo(idx) ==
    /\ ~panicked /\ ops < MaxOps
    /\ LET r == WriteTo(W, idx) IN
       /\ Leaves(r)
       /\ slast' = SLast("WriteTo", idx, FALSE, r.err, r.out)
    /\ UNCHANGED <<plan, planLen, planFresh>>

\* sync.Pool drops the pooled buffer: the next pagePool.Get makes a new one
PoolDrop ==
    /\ ~panicked /\ ops < MaxOps /\ s.prepared
    /\ pagebuf # ZeroBuf
    /\ pagebuf' = ZeroBuf
    /\ ops' = ops + 1
    /\ UNCHANGED <<s, disk, plan, planLen, planFresh, slast, pre, treeVars,
                   lockVars, arrayVars>>

\* the lengths asked of Acquire: none, one full block, two full blocks, and
\* the longest, which need not fill its last block
Lens == {0, BlockSize - 7, 2 * (BlockSize - 7), MaxLen}

\* the reads are of the blocks of the last plan
NextStore ==
    \/ SCreate
    \/ SOpen
    \/ \E n \in Lens : SAcquire(n)
    \/ \E mode \in {"slices", "oversize"} : SPut(mode)
    \/ \E idx \in 0..MaxIdx : SErase(idx)
    \/ \E i \in 1..Len(plan) : SGet(plan[i].idx)
    \/ plan # <<>> /\ SWriteTo(plan[1].idx)
    \/ PoolDrop

SpecStore == Init /\ [][NextStore]_vars

\* ------------------------------------------- callers that break the protocol
\* byte stores found by Open and Create: none, one that is not a block file,
\* and a block file of version 2.0.0
V020000 == U16be(2) \o U16be(0) \o U16be(0)
Files ==
    {EmptyDisk,
     [magic |-> "x.blk", meta |-> <<>>, blk |-> <<>>],
     [magic |-> Magic,
      meta |-> U16be(BlockSize) \o U32be(0) \o U32be(0) \o U32be(0) \o V020000,
      blk |-> <<TypeSuper, 0, 0>>]}

InitFiles ==
    /\ TreeInit
    /\ LockInit
    /\ ArrayInit
    /\ s = NewStore
    /\ disk \in Files
    /\ pagebuf = ZeroBuf
    /\ plan = <<>>
    /\ planLen = 0
    /\ planFresh = FALSE
    /\ slast = SNone
    /\ pre = [s |-> NewStore, disk |-> disk]
    /\ ops = 0

\* the struct a call is made on: the one in use, or New(rwsNew) after Close()
Receiver(fresh) == IF fresh THEN World(NewStore, disk, ZeroBuf) ELSE W

SCreateAt(fresh) ==
    /\ ~panicked /\ ops < MaxFileOps
    /\ LET r == Create(Receiver(fresh), V010000, BlockSize) IN
       /\ Leaves(r)
       /\ slast' = SLast("Create", BlockSize, fresh, r.err, <<>>)
    /\ planFresh' = FALSE
    /\ UNCHANGED <<plan, planLen>>

SOpenAt(fresh) ==
    /\ ~panicked /\ ops < MaxFileOps
    /\ LET r == Open(Receiver(fresh)) IN
       /\ Leaves(r)
       /\ slast' = SLast("Open", 0, fresh, r.err, <<>>)
    /\ planFresh' = FALSE
    /\ UNCHANGED <<plan, planLen>>

Types == {TypeEmpty, TypeSuper, TypeSingle, TypeChained}

\* the filled plan with the Type of page i set by the caller
Retyped(blocks, n, i, t) == [Fill(blocks, n, "slices") EXCEPT ![i].Type = t]

SPutTyped(i, t) ==
    /\ ~panicked /\ ops < MaxFileOps
    /\ i \in 1..Len(plan)
    /\ s.total + Allocates(plan) <= MaxTotal
    /\ \E pages \in {Retyped(plan, planLen, i, t)} :
         LET r == PutBlocks(W, pages) IN
         /\ Leaves(r)
         /\ slast' = SLast("Put", "retyped", planFresh, r.err, pages)
    /\ planFresh' = FALSE
    /\ UNCHANGED <<plan, planLen>>

\* Put([]Block{{Type: t, Data: data}}): a block the caller made, whose idx is
\* 0 and whose allocate is false
SPutZero(t, data) ==
    /\ ~panicked /\ ops < MaxFileOps
    /\ \E pages \in {<<Block(t, 0, data, 0, 0, FALSE)>>} :
         LET r == PutBlocks(W, pages) IN
         /\ Leaves(r)
         /\ slast' = SLast("Put", "zero", FALSE, r.err, pages)
    /\ planFresh' = FALSE
    /\ UNCHANGED <<plan, planLen>>

\* no payload, and one byte more than a Single block holds
Datas == {<<>>, [j \in 1..(BlockSize - 2) |-> j]}

NextFiles ==
    \/ \E fresh \in BOOLEAN : SCreateAt(fresh)
    \/ \E fresh \in BOOLEAN : SOpenAt(fresh)
    \/ \E i \in 1..Len(plan), t \in Types : SPutTyped(i, t)
    \/ \E t \in Types, data \in Datas : SPutZero(t, data)
    \/ ops < MaxFileOps /\ \E n \in Lens : SAcquire(n)
    \/ ops < MaxFileOps /\ \E mode \in {"slices", "oversize"} : SPut(mode)
    \/ ops < MaxFileOps /\ \E idx \in 0..MaxIdx : SErase(idx)
    \/ ops < MaxFileOps /\ \E i \in 1..Len(plan) : SGet(plan[i].idx)
    \/ ops < MaxFileOps /\ PoolDrop

SpecFiles == InitFiles /\ [][NextFiles]_vars

\* ------------------------------------------------------- tree behaviours
\* a sequence of Puts, then Gets
NextPut ==
    \/ \E d \in Pairs :
          last.op # "Get" /\ Len(nodes) < MaxNodes /\ Put(d.Key, d.Val)
          /\ UNCHANGED <<storeVars, lockVars, arrayVars>>
    \/ \E k \in AnyKeys : Get(k) /\ UNCHANGED <<storeVars, lockVars, arrayVars>>

SpecPut == Init /\ [][NextPut]_vars

\* Put, Del and Get in any order
DelKeys == {KeyOf(i) : i \in 0..(NumDelKeys - 1)}
DelPairs == {d \in Pairs : d.Key \in DelKeys}

NextTree ==
    \/ \E d \in DelPairs :
          Len(nodes) < MaxDelNodes /\ Put(d.Key, d.Val) /\ UNCHANGED <<storeVars, lockVars, arrayVars>>
    \/ \E k \in DelKeys : dels < MaxDels /\ Del(k) /\ UNCHANGED <<storeVars, lockVars, arrayVars>>
    \/ \E k \in DelKeys \cup {KeyOf(99)} : Get(k) /\ UNCHANGED <<storeVars, lockVars, arrayVars>>

SpecTree == Init /\ [][NextTree]_vars

\* --------------------------------------------------- concurrent callers
\* sync.RWMutex: Lock waits for the writer and all readers to leave; RLock
\* waits for the writer to leave and for no Lock call to be waiting
WriteOps == {"Put", "Del"}
LockIgnoringReaders(l) == l.writer = 0

CanLock(l) == l.writer = 0 /\ l.readers = {}

LockWaiting == \E q \in Procs : pc[q].at = "lock" /\ pc[q].op \in WriteOps
CanRLock(l) == l.writer = 0 /\ ~LockWaiting

LockKeys == {KeyOf(i) : i \in 0..(NumLockKeys - 1)}

\* goroutine p calls tree.Put(SP(k, SmallVal)), tree.Del(SK(k)) or
\* tree.Get(SK(k))
Call(p, op, k) ==
    /\ ~panicked /\ calls < MaxCalls
    /\ pc[p].at = "idle"
    /\ pc' = [pc EXCEPT ![p] = [at |-> "lock", op |-> op, key |-> k]]
    /\ calls' = calls + 1
    /\ UNCHANGED <<treeVars, storeVars, lock, arrayVars>>

\* tree.lock.Lock() of Put and Del
TakeLock(p) ==
    /\ ~panicked
    /\ pc[p].at = "lock" /\ pc[p].op \in WriteOps
    /\ CanLock(lock)
    /\ lock' = [lock EXCEPT !.writer = p]
    /\ pc' = [pc EXCEPT ![p].at = "run"]
    /\ UNCHANGED <<treeVars, storeVars, calls, arrayVars>>

\* tree.lock.RLock() of Get
TakeRLock(p) ==
    /\ ~panicked
    /\ pc[p].at = "lock" /\ pc[p].op = "Get"
    /\ CanRLock(lock)
    /\ lock' = [lock EXCEPT !.readers = @ \cup {p}]
    /\ pc' = [pc EXCEPT ![p].at = "run"]
    /\ UNCHANGED <<treeVars, storeVars, calls, arrayVars>>

\* the body of the call, between the lock and the deferred unlock
Run(p) ==
    /\ pc[p].at = "run"
    /\ \/ pc[p].op = "Put" /\ Put(pc[p].key, SmallVal)
       \/ pc[p].op = "Del" /\ Del(pc[p].key)
       \/ pc[p].op = "Get" /\ Get(pc[p].key)
    /\ pc' = [pc EXCEPT ![p].at = "unlock"]
    /\ UNCHANGED <<storeVars, lock, calls, arrayVars>>

\* defer tree.lock.Unlock() / RUnlock()
Release(p) ==
    /\ ~panicked
    /\ pc[p].at = "unlock"
    /\ lock' = IF pc[p].op \in WriteOps THEN [lock EXCEPT !.writer = 0]
               ELSE [lock EXCEPT !.readers = @ \ {p}]
    /\ pc' = [pc EXCEPT ![p] = Idle]
    /\ UNCHANGED <<treeVars, storeVars, calls, arrayVars>>

NextLock ==
    \/ \E p \in Procs, op \in WriteOps \cup {"Get"}, k \in LockKeys : Call(p, op, k)
    \/ \E p \in Procs : TakeLock(p)
    \/ \E p \in Procs : TakeRLock(p)
    \/ \E p \in Procs : Run(p)
    \/ \E p \in Procs : Release(p)

SpecLock == Init /\ [][NextLock]_vars

\* ------------------------------------------------------------ tree claims
Height3 ==
    /\ root # 0
    /\ nodes[root].first # 0
    /\ nodes[nodes[root].first].first # 0

\* C1: after a sequence of Puts, Get(k) returns for every key that was put a
\* pair equal to the last one put under k, and not-found for every key that
\* was never put; a Get that was run returned just that.
C1_GetReturnsLastPut ==
    (~panicked /\ root # 0) =>
        /\ \A k \in Keys :
              treeGet(nodes, root, SK(k)) =
                  IF contents[k] = Absent THEN NotFound
                  ELSE Found(SP(k, contents[k]))
        /\ treeGet(nodes, root, SK(KeyOf(99))) = NotFound
        /\ last.op = "Get" => last.res = treeGet(nodes, root, SK(last.key))

\* a Get found a key put with the big value in a tree of three levels
C1_Witness ==
    /\ ~panicked
    /\ Height3
    /\ last.op = "Get"
    /\ last.res = Found(SP(last.key, BigVal))

\* C2: after Del(k) of a key the tree held, Get(k) is not-found and every
\* other key the tree held is still returned with its element.
C2_DelRemovesExactlyKey ==
    (last.op = "Del" /\ ~panicked /\ beforeDel[last.key] # Absent) =>
        /\ Lookup(nodes, root, last.key) = Absent
        /\ \A j \in Keys \ {last.key} : Lookup(nodes, root, j) = beforeDel[j]

\* C3: Del(k) of a key the tree does not hold changes nothing Get returns.
C3_DelMissingIsNoOp ==
    (last.op = "Del" /\ ~panicked /\ beforeDel[last.key] = Absent) =>
        View(nodes, root) = beforeDel

\* C4: no sequence of Put, Del and Get panics.
C4_NoPanic == ~panicked


\* ----------------------------------------------------------- store claims
\* what the byte store holds for block idx: its type byte (-1 when the file
\* ends before the block) and its next field, a missing byte counting as 0
DiskByte(st, d, idx, off) ==
    LET pos == st.blockSize * idx + off IN
    IF pos < Len(d.blk) THEN d.blk[pos + 1] ELSE 0
DiskType(st, d, idx) ==
    IF st.blockSize * idx < Len(d.blk) THEN DiskByte(st, d, idx, 0) ELSE -1
DiskNext(st, d, idx) ==
    BeU32(<<DiskByte(st, d, idx, 3), DiskByte(st, d, idx, 4),
            DiskByte(st, d, idx, 5), DiskByte(st, d, idx, 6)>>)

\* the indices met by following the on-disk next fields from idx
RECURSIVE FreeWalk(_, _, _, _)
FreeWalk(st, d, idx, fuel) ==
    IF idx = 0 \/ fuel = 0 THEN <<>>
    ELSE <<idx>> \o FreeWalk(st, d, DiskNext(st, d, idx), fuel - 1)
FreeList(st, d) == FreeWalk(st, d, st.freeHead, MaxIdx + 2)

NoRepeat(f) == \A i, j \in 1..Len(f) : i # j => f[i] # f[j]
Reused(blocks) == {i \in 1..Len(blocks) : ~blocks[i].allocate}
PutOfFreshPlan ==
    slast.op = "Put" /\ slast.arg = "slices" /\ slast.fresh /\ slast.err = ""
        /\ ~panicked

\* C5: after Put has written the plan of Acquire(L), L > 0, filled with the
\* consecutive slices of a payload of L bytes, Get of every block of the plan
\* returns the slice and the Next that were put, and WriteTo of the first index
\* delivers exactly the L bytes of the payload in order.
C5_RoundTrip ==
    (PutOfFreshPlan /\ planLen > 0) =>
        /\ \A i \in 1..Len(plan) :
              LET g == GetBlock(W, plan[i].idx) IN
              /\ g.err = ""
              /\ g.block.Data = SliceOf(plan, planLen, i)
              /\ g.block.Next = plan[i].Next
        /\ LET wt == WriteTo(W, plan[1].idx) IN
           wt.err = "" /\ wt.out = Payload(planLen)

\* C6: in every state of a prepared store, the on-disk next fields followed
\* from freeHead visit only Empty blocks with indices in 1..total, visit no
\* block twice, and end at a block whose next is 0 and whose index is freeTail.
C6_FreeListWellFormed ==
    (s.prepared /\ ~panicked) =>
        LET f == FreeList(s, disk) IN
        /\ \A i \in 1..Len(f) :
              f[i] \in 1..s.total /\ DiskType(s, disk, f[i]) = TypeEmpty
        /\ NoRepeat(f)
        /\ f # <<>> =>
              DiskNext(s, disk, f[Len(f)]) = 0 /\ f[Len(f)] = s.freeTail

\* C7: in every state, after calls that succeeded and after calls that
\* returned an error, freeHead is 0 exactly when freeTail is 0.
C7_HeadZeroIffTailZero ==
    ~panicked => (s.freeHead = 0 <=> s.freeTail = 0)

\* C8: after a successful Put of a plan of Acquire that reuses k >= 1 blocks
\* of the free list f1..fm, freeHead is f(k+1) when k < m, and freeHead and
\* freeTail are 0 when k = m, and no block of the plan is on the free list.
C8_PutConsumesFreeBlocks ==
    (PutOfFreshPlan /\ Reused(plan) # {}) =>
        LET f == FreeList(pre.s, pre.disk)
            k == Cardinality(Reused(plan))
            now == FreeList(s, disk)
        IN /\ k < Len(f) => s.freeHead = f[k + 1]
           /\ k >= Len(f) => s.freeHead = 0 /\ s.freeTail = 0
           /\ \A i \in 1..Len(plan) : \A j \in 1..Len(now) : now[j] # plan[i].idx

\* C9: Acquire never crashes, and the plan it returns takes the free list from
\* freeHead in list order, each such block Empty on disk, then, the list
\* exhausted, allocate blocks total+1, total+2, ..., with no index twice.
C9_AcquireWalksFreeList ==
    slast.op = "Acquire" =>
        /\ ~panicked
        /\ slast.err = "" =>
              LET f == FreeList(s, disk)
                  k == Cardinality(Reused(plan))
              IN /\ Reused(plan) = 1..k
                 /\ k <= Len(f)
                 /\ k < Len(plan) => k = Len(f)
                 /\ \A i \in 1..k :
                       plan[i].idx = f[i]
                           /\ DiskType(s, disk, plan[i].idx) = TypeEmpty
                 /\ \A i \in (k + 1)..Len(plan) : plan[i].idx = s.total + (i - k)
                 /\ NoRepeat([i \in 1..Len(plan) |-> plan[i].idx])

\* C10: Acquire leaves the struct and every byte of the byte store as they
\* were, and the same Acquire called again at once returns the same plan.
C10_AcquireChangesNothing ==
    (slast.op = "Acquire" /\ ~panicked) =>
        /\ s = pre.s
        /\ disk = pre.disk
        /\ LET r == Acquire(W, slast.arg) IN
           ~r.panic /\ r.err = slast.err /\ r.blocks = slast.out


\* a store just created with the tests' block size
TestStore ==
    World([NewStore EXCEPT !.v = V010000, !.blockSize = TestBlockSize,
                           !.prepared = TRUE],
          [magic |-> Magic, meta |-> <<>>, blk |-> <<TypeSuper, 0, 0>>], ZeroBuf)
PlanIdx(blocks) == [i \in 1..Len(blocks) |-> blocks[i].idx]

\* C11: a successful Acquire(L) returns exactly ceil(L / (blockSize - 7))
\* blocks, each block's Next is the index of the block after it and the last
\* block's Next is 0; on a new store of 512-byte blocks 300 and 505 give one
\* block at index 1, 520 gives two blocks and 5050 gives ten at indices 1..10.
C11_AcquireCountAndLinks ==
    /\ (slast.op = "Acquire" /\ slast.err = "" /\ ~panicked) =>
          LET n == Len(plan)
              ds == s.blockSize - 7
          IN /\ n * ds >= slast.arg
             /\ n > 0 => (n - 1) * ds < slast.arg
             /\ \A i \in 1..(n - 1) : plan[i].Next = plan[i + 1].idx
             /\ n > 0 => plan[n].Next = 0
    /\ PlanIdx(Acquire(TestStore, 300).blocks) = <<1>>
    /\ PlanIdx(Acquire(TestStore, 505).blocks) = <<1>>
    /\ PlanIdx(Acquire(TestStore, 520).blocks) = <<1, 2>>
    /\ PlanIdx(Acquire(TestStore, 5050).blocks) = <<1, 2, 3, 4, 5, 6, 7, 8, 9, 10>>

C11_Witness ==
    /\ slast.op = "Acquire" /\ slast.err = "" /\ ~panicked
    /\ Len(plan) = 3 /\ slast.arg = MaxLen
    /\ ~plan[1].allocate /\ plan[2].allocate /\ plan[3].allocate
    /\ s.total > 0

\* C12: the blocks of a plan are Chained when the plan has more than one
\* block and Single when it has exactly one.
C12_PlanTypes ==
    (slast.op = "Acquire" /\ slast.err = "" /\ ~panicked) =>
        \A i \in 1..Len(plan) :
            plan[i].Type = IF Len(plan) > 1 THEN TypeChained ELSE TypeSingle


ErasedAllocated ==
    slast.op = "Erase" /\ slast.err = "" /\ ~panicked
        /\ slast.arg \in 1..pre.s.total

\* C13: a successful Erase(idx) leaves block idx Empty with on-disk next 0,
\* sets the on-disk next of the previous tail to idx when there was a tail,
\* sets freeTail to idx, and sets freeHead to idx only if the list was empty.
C13_EraseAppendsToTail ==
    (slast.op = "Erase" /\ slast.err = "" /\ ~panicked) =>
        /\ DiskType(s, disk, slast.arg) = TypeEmpty
        /\ DiskNext(s, disk, slast.arg) = 0
        /\ pre.s.freeTail \notin {0, slast.arg} =>
              DiskNext(s, disk, pre.s.freeTail) = slast.arg
        /\ s.freeTail = slast.arg
        /\ s.freeHead = IF pre.s.freeHead = 0 THEN slast.arg ELSE pre.s.freeHead

\* C14 as stated: in every state, Erase(i) of an allocated block i # 0 followed
\* at once by Acquire(1) returns a plan of one block whose index is i.
C14_EraseThenAcquire ==
    ErasedAllocated =>
        LET r == Acquire(W, 1) IN
        ~r.panic /\ r.err = "" /\ PlanIdx(r.blocks) = <<slast.arg>>

\* C14 amended: when the free list is empty (freeHead = 0), Erase(i) of an
\* allocated block i # 0 followed at once by Acquire(1) returns a plan of one
\* block whose index is i.
C14_EraseThenAcquireOnEmptyList ==
    (ErasedAllocated /\ pre.s.freeHead = 0) =>
        LET r == Acquire(W, 1) IN
        ~r.panic /\ r.err = "" /\ PlanIdx(r.blocks) = <<slast.arg>>

C14_Witness ==
    /\ ErasedAllocated /\ pre.s.freeHead = 0
    /\ s.total = 2 /\ slast.arg = 1
    /\ PlanIdx(Acquire(W, 1).blocks) = <<1>>


\* ------------------------------------------------- claims on broken callers
\* C15: block 0 is the Super block in every state of a prepared store, and
\* Erase(0) is refused with the protected error and changes neither the struct
\* nor the byte store.
C15_BlockZeroStaysSuper ==
    /\ s.prepared => DiskType(s, disk, 0) = TypeSuper
    /\ (slast.op = "Erase" /\ slast.arg = 0 /\ pre.s.prepared) =>
          /\ slast.err = "super block can not be erased"
          /\ s = pre.s /\ disk = pre.disk

\* the pages of the last Put
PutPages ==
    IF slast.arg \in {"slices", "oversize"} THEN Fill(plan, planLen, slast.arg)
    ELSE slast.out

\* page j is one that Put must refuse: Empty, Super away from index 0, a
\* payload longer than the block holds, or a first page that is not allocate
\* and not at the free head
Offends(st, pages, j) ==
    \/ pages[j].Type = TypeEmpty
    \/ pages[j].Type = TypeSuper /\ pages[j].idx # 0
    \/ Len(pages[j].Data) >
          st.blockSize - (IF pages[j].Type = TypeChained THEN 7 ELSE 3)
    \/ j = 1 /\ ~pages[j].allocate /\ pages[j].idx # st.freeHead

\* the last operation changed block idx of the byte store
Written(idx) ==
    \/ \E off \in 0..(pre.s.blockSize - 1) :
          DiskByte(pre.s, disk, idx, off) # DiskByte(pre.s, pre.disk, idx, off)
    \/ Len(disk.blk) > pre.s.blockSize * idx
          /\ Len(pre.disk.blk) <= pre.s.blockSize * idx

CreateErr(d) == IF FileSize(d) = 0 THEN "" ELSE "rwsc exists"
OpenErr(d) ==
    IF FileSize(d) = 0 THEN "rwsc not exists"
    ELSE IF d.magic # Magic THEN "malformed format"
    ELSE IF SubSeq(d.meta, 15, 20) # V010000 THEN "unsupported version"
    ELSE ""

\* C19 as stated: Create succeeds exactly on an empty byte store and fails
\* with exists otherwise; Open fails with not-exists on an empty byte store,
\* malformed on a bad magic, unsupported-version on another version and
\* succeeds otherwise; after a failed Create or Open the store is not prepared
\* and the byte store is unchanged.
C19_CreateOpenFailures ==
    /\ slast.op = "Create" => slast.err = CreateErr(pre.disk)
    /\ slast.op = "Open" => slast.err = OpenErr(pre.disk)
    /\ (slast.op \in {"Create", "Open"} /\ slast.err # "") =>
          ~s.prepared /\ disk = pre.disk

\* C19 amended: the same, where after a failed Create or Open a store that was
\* not prepared before the call is not prepared, and the byte store is
\* unchanged.
C19_FailuresOnUnpreparedStore ==
    /\ slast.op = "Create" => slast.err = CreateErr(pre.disk)
    /\ slast.op = "Open" => slast.err = OpenErr(pre.disk)
    /\ (slast.op \in {"Create", "Open"} /\ slast.err # "") =>
          /\ (slast.fresh \/ ~pre.s.prepared) => ~s.prepared
          /\ disk = pre.disk

C19_Witness ==
    /\ slast.op = "Create" /\ slast.err = "rwsc exists" /\ slast.fresh
    /\ pre.s.prepared /\ pre.s.total > 0
    /\ ~s.prepared /\ disk = pre.disk


\* ------------------------------------------- file length, total, metadata
Succeeded(names) == slast.op \in names /\ slast.err = "" /\ ~panicked

\* C17: after every successful Create, Put and Erase the length of the byte
\* store is 128 + blockSize * (total + 1).
C17_FileLength ==
    Succeeded({"Create", "Put", "Erase"}) =>
        FileSize(disk) = dataStartAt + s.blockSize * (s.total + 1)

\* C18: a successful Put with n allocate blocks on a store with total = T
\* leaves total = T + n, its allocate blocks have indices in T+1..T+n (so it
\* writes them over no block of an earlier Put), and no byte of the store lies
\* beyond block total.
C18_TotalIsLastAllocated ==
    Succeeded({"Put"}) =>
        /\ s.total = pre.s.total + Allocates(PutPages)
        /\ \A i \in 1..Len(PutPages) :
              PutPages[i].allocate =>
                  PutPages[i].idx \in (pre.s.total + 1)..s.total
        /\ Len(disk.blk) <= s.blockSize * (s.total + 1)

\* the metadata record of a byte store
MetaBlockSize(d) == BeU16(SubSeq(d.meta, 1, 2))
MetaFreeHead(d) == BeU32(SubSeq(d.meta, 3, 6))
MetaFreeTail(d) == BeU32(SubSeq(d.meta, 7, 10))
MetaTotal(d) == BeU32(SubSeq(d.meta, 11, 14))

SameFields(st1, st2) ==
    /\ st1.blockSize = st2.blockSize /\ st1.freeHead = st2.freeHead
    /\ st1.freeTail = st2.freeTail /\ st1.total = st2.total

\* C20: after every successful Create, Put and Erase the metadata record on
\* the byte store holds the in-memory blockSize, freeHead, freeTail and total,
\* and Close followed by Open on the same byte store succeeds and restores
\* these four values.
C20_MetadataRestoredByOpen ==
    Succeeded({"Create", "Put", "Erase"}) =>
        /\ MetaBlockSize(disk) = s.blockSize /\ MetaFreeHead(disk) = s.freeHead
        /\ MetaFreeTail(disk) = s.freeTail /\ MetaTotal(disk) = s.total
        /\ \E r \in {Open(World(NewStore, disk, ZeroBuf))} :
              r.err = "" /\ r.w.s.prepared /\ SameFields(r.w.s, s)

\* ------------------------------------------------------ tree shape claims
\* createTree of the tests: NewTree(16) and SP(k, k) for the keys in this order
TestOrder == <<0, 2, 4, 6, 8, 10, 1, 3, 5, 7, 9>>

RECURSIVE putAll(_, _, _)
putAll(t, order, i) ==
    IF i > Len(order) \/ ~t.ok THEN t
    ELSE putAll(treePut(t.h, t.r, SP(KeyOf(order[i]), KeyOf(order[i]))), order,
                i + 1)

createTree == putAll(Ret(<<>>, 0), TestOrder, 1)

\* isNode of the tests: the keys of node n are those numbered ks
isNode(h, n, ks) ==
    /\ n # 0
    /\ Len(h[n].elems) = Len(ks)
    /\ \A i \in 1..Len(ks) : h[n].elems[i].data.Key = KeyOf(ks[i])

AfterOf(h, n, i) == IF n = 0 THEN 0 ELSE h[n].elems[i].after
FirstOf(h, n) == IF n = 0 THEN 0 ELSE h[n].first

\* TestNode_put
CreateTreeShape ==
    /\ createTree.ok
    /\ \E h \in {createTree.h} : \E rt \in {createTree.r} :
       \E l \in {FirstOf(h, rt)} : \E r \in {AfterOf(h, rt, 1)} :
          /\ isNode(h, rt, <<4>>)
          /\ isNode(h, l, <<2>>)
          /\ isNode(h, FirstOf(h, l), <<0, 1>>)
          /\ isNode(h, AfterOf(h, l, 1), <<3>>)
          /\ isNode(h, r, <<6, 8>>)
          /\ isNode(h, FirstOf(h, r), <<5>>)
          /\ isNode(h, AfterOf(h, r, 1), <<7>>)
          /\ isNode(h, AfterOf(h, r, 2), <<9, 10>>)

\* node n was split by this step into n and the new node nn, with element i
\* of the parent par between them
SplitInto(n, nn, par, i) ==
    LET up == nodes'[par].elems[i]
        full == nodes'[n].elems \o <<Elem(up.data, nodes'[nn].first)>>
                    \o nodes'[nn].elems
    IN /\ up.after = nn
       /\ nodes'[nn].p = par
       /\ IF i = 1 THEN nodes'[par].first = n
          ELSE nodes'[par].elems[i - 1].after = n
       /\ Len(nodes'[n].elems) = Len(full) \div 2
       /\ \E j \in 0..(Len(full) - 1) : RemoveAt(full, j) = nodes[n].elems

\* a Put step that split one node and no other
OneSplit(n) ==
    /\ last'.op = "Put" /\ ~panicked'
    /\ n \in 1..Len(nodes)
    /\ Len(nodes'[n].elems) < Len(nodes[n].elems)
    /\ Len(nodes') = Len(nodes) + (IF nodes[n].p = 0 THEN 2 ELSE 1)

\* C21: a Put that splits a node n keeps elems[0..mid) in n, mid = |elems| / 2,
\* moves elems[mid] into the parent (a new root whose first is n when n had no
\* parent) with after = a new right sibling that holds elems[mid+1..]; and the
\* tree of the tests (keys 00,02,04,06,08,10,01,03,05,07,09) has the shape
\* root [04], [02] with [00,01] and [03], [06,08] with [05], [07] and [09,10].
C21_SplitAtMid ==
    /\ []CreateTreeShape
    /\ [][\A n \in 1..Len(nodes) :
            OneSplit(n) =>
               \E nn \in (Len(nodes) + 1)..Len(nodes') :
               \E par \in {nodes'[n].p} :
                  /\ par # 0
                  /\ \E i \in 1..Len(nodes'[par].elems) : SplitInto(n, nn, par, i)
                  /\ IF nodes[n].p = 0
                     THEN /\ par > Len(nodes) /\ root' = par
                          /\ nodes'[par].first = n /\ Len(nodes'[par].elems) = 1
                          /\ nodes'[par].p = 0
                     ELSE par = nodes[n].p]_vars

\* Puts have split leaves and then an inner node under a new root, whose
\* right sibling took the after child of the element that moved up as first
C21_Witness ==
    /\ ~panicked /\ last.op = "Put" /\ Height3
    /\ Len(nodes[root].elems) = 1
    /\ \E nn \in {nodes[root].elems[1].after} :
          /\ nn # 0 /\ nodes[nn].p = root
          /\ nodes[nn].first # 0 /\ nodes[nodes[nn].first].p = nn
          /\ Len(nodes[nn].elems) = 1 /\ Len(nodes[nodes[root].first].elems) = 1

\* the last step was a Put of a key the tree held
Replaced == last.op = "Put" /\ ~panicked /\ last.res.ok /\ last.res.found

\* C22: a Put of a key the tree holds replaces the data of that element and
\* nothing else: the root, the number of nodes, every node's first, parent and
\* number of elements, every element's after pointer and every other element
\* are as before.
C22_ReplaceInPlace ==
    [][Replaced' =>
          /\ root' = root
          /\ Len(nodes') = Len(nodes)
          /\ \A n \in 1..Len(nodes) :
                /\ nodes'[n].first = nodes[n].first
                /\ nodes'[n].p = nodes[n].p
                /\ Len(nodes'[n].elems) = Len(nodes[n].elems)
                /\ \A i \in 1..Len(nodes[n].elems) :
                      /\ nodes'[n].elems[i].after = nodes[n].elems[i].after
                      /\ nodes'[n].elems[i].data =
                            IF nodes[n].elems[i].data.Key = last'.key
                            THEN SP(last'.key, contents'[last'.key])
                            ELSE nodes[n].elems[i].data]_vars

\* a Put replaced the small value of an element that has an after child by
\* the big one
C22_Witness ==
    /\ Replaced
    /\ last.res.data.Val = SmallVal
    /\ \E n \in 1..Len(nodes) : \E i \in 1..Len(nodes[n].elems) :
          /\ nodes[n].elems[i].data = SP(last.key, BigVal)
          /\ nodes[n].elems[i].after # 0

\* C23: a Put that makes a node of fewer than 3 elements overflow returns (with
\* the insufficient-room error) and does not crash.
C23_TooLargeElementFails == last.op = "Put" => ~panicked

\* ------------------------------------------------------------ lock claims
InCall(p) == pc[p].at \in {"run", "unlock"}
Writing(p) == InCall(p) /\ pc[p].op \in WriteOps

\* C24: while a goroutine is inside Put or Del (after Lock, before Unlock) no
\* other goroutine is inside Put, Del or Get; the lock records just the
\* goroutines that are inside.
C24_WritersExclude ==
    /\ \A p, q \in Procs : (p # q /\ Writing(p)) => ~InCall(q)
    /\ \A p \in Procs :
          /\ Writing(p) <=> lock.writer = p
          /\ (InCall(p) /\ pc[p].op = "Get") <=> p \in lock.readers

\* two Gets are inside at the same time, on a tree that holds a key
C24_Witness ==
    /\ ~panicked /\ root # 0
    /\ \E p, q \in Procs :
          /\ p # q
          /\ pc[p].op = "Get" /\ pc[p].at = "unlock"
          /\ pc[q].op = "Get" /\ pc[q].at = "run"

\* ------------------------------------------------------- tree invariants
\* the nodes met from n through first and after pointers
RECURSIVE Below(_, _, _)
Below(h, n, fuel) ==
    IF n = 0 \/ fuel = 0 THEN {}
    ELSE {n} \cup Below(h, h[n].first, fuel - 1)
             \cup UNION {Below(h, h[n].elems[i].after, fuel - 1) :
                            i \in 1..Len(h[n].elems)}

InTree == Below(nodes, root, Len(nodes) + 1)

\* the keys of the subtree of n from left to right
RECURSIVE InOrder(_, _, _)
RECURSIVE InOrderFrom(_, _, _, _)
InOrderFrom(h, n, i, fuel) ==
    IF i > Len(h[n].elems) THEN <<>>
    ELSE <<h[n].elems[i].data.Key>> \o InOrder(h, h[n].elems[i].after, fuel)
            \o InOrderFrom(h, n, i + 1, fuel)
InOrder(h, n, fuel) ==
    IF n = 0 \/ fuel = 0 THEN <<>>
    ELSE InOrder(h, h[n].first, fuel - 1) \o InOrderFrom(h, n, 1, fuel - 1)

Ascending(ks) ==
    \A i \in 1..(Len(ks) - 1) : bytesCompareFrom(ks[i], ks[i + 1], 1) < 0

AfterPutOrDel == ~panicked /\ last.op \in {"Put", "Del"}

\* C25: after any sequence of Put and Del the keys of the tree read from left
\* to right (first subtree, then each element followed by its after subtree)
\* are strictly ascending: every node is sorted, every subtree lies between
\* the elements around it and no key occurs twice.
C25_SearchTreeOrder ==
    (~panicked /\ root # 0) =>
        Ascending(InOrder(nodes, root, Len(nodes) + 1))

\* C26: after every completed Put or Del every node of the tree has
\* 6 + sum of element sizes <= total.
C26_NoPersistentOverflow ==
    AfterPutOrDel => \A n \in InTree : ~overflow(nodes, n)

\* C27: after any sequence of Put and Del the root has no parent, and the
\* first child and every after child of a node n have n as parent.
C27_ParentPointers ==
    (~panicked /\ root # 0) =>
        /\ nodes[root].p = 0
        /\ \A n \in InTree :
              /\ nodes[n].first # 0 => nodes[nodes[n].first].p = n
              /\ \A i \in 1..Len(nodes[n].elems) :
                    nodes[n].elems[i].after # 0 =>
                        nodes[nodes[n].elems[i].after].p = n

\* C28: after any sequence of Put and Del every node of the tree that is not a
\* leaf has a first child and an after child for every element.
C28_ChildCompleteness ==
    ~panicked =>
        \A n \in InTree :
            ~leaf(nodes, n) =>
                /\ nodes[n].first # 0
                /\ \A i \in 1..Len(nodes[n].elems) : nodes[n].elems[i].after # 0

\* C29: after any Del the root is nil or a node with at least one element.
C29_RootNotEmpty ==
    (last.op = "Del" /\ ~panicked) =>
        (root = 0 \/ Len(nodes[root].elems) >= 1)

\* a Del has left the old root r without elements and the tree's root is now
\* r's first child, which holds at least one element
C29_Witness ==
    /\ last.op = "Del" /\ ~panicked /\ root # 0
    /\ Len(nodes[root].elems) >= 1
    /\ \E r \in 1..Len(nodes) :
          r # root /\ Len(nodes[r].elems) = 0 /\ nodes[r].first = root

\* ------------------------------------------- deletions in a grown tree
\* TestNode_del: the keys "00", "01", .. are put in ascending order, SP(k, k),
\* then keys are deleted; a deleted key may be put back
Grown == Cardinality({k \in Keys : contents[k] # Absent})

NextGrown ==
    \/ \E i \in 0..(NumKeys - 1) :
          /\ dels = 0 /\ i = Grown /\ Len(nodes) < MaxNodes
          /\ Put(KeyOf(i), KeyOf(i))
          /\ UNCHANGED <<storeVars, lockVars, arrayVars>>
    \/ \E k \in Keys :
          /\ dels > 0 /\ contents[k] = Absent /\ Len(nodes) < MaxNodes
          /\ Put(k, k)
          /\ UNCHANGED <<storeVars, lockVars, arrayVars>>
    \/ \E k \in Keys : dels < MaxDels /\ Del(k) /\ UNCHANGED <<storeVars, lockVars, arrayVars>>

SpecGrown == Init /\ [][NextGrown]_vars

\* ------------------------------------ deletions in a tree of three levels
\* as TestNode_del with more keys: "00" .. "10" are put in ascending order,
\* which gives a root with two elements over three inner nodes; then keys are
\* deleted from that tree and any of the keys is put
Tall == Cardinality({k \in TallKeys : contents[k] # Absent})

NextTall ==
    \/ \E i \in 0..(NumTallKeys - 1) :
          /\ dels = 0 /\ i = Tall /\ Len(nodes) < MaxTallNodes
          /\ Put(KeyOf(i), KeyOf(i))
          /\ UNCHANGED <<storeVars, lockVars, arrayVars>>
    \/ \E k \in TallKeys :
          /\ dels > 0 /\ Len(nodes) < MaxTallNodes
          /\ Put(k, k)
          /\ UNCHANGED <<storeVars, lockVars, arrayVars>>
    \/ \E k \in TallKeys :
          /\ Tall = NumTallKeys \/ dels > 0
          /\ dels < MaxTallDels /\ Del(k) /\ UNCHANGED <<storeVars, lockVars, arrayVars>>

SpecTall == Init /\ [][NextTall]_vars

\* --------------------------------------------------- an array on its own
\* Test_array_Insert and Test_array_Delete: items are inserted into an empty
\* array in any order, an item that is already there included, and deleted
ArrItems == {Elem(SK(KeyOf(i)), 0) : i \in 0..(NumArrKeys - 1)}

ArrInsert(item) ==
    /\ Len(arr) < MaxArrLen
    /\ arr' = insert(arr, item)
    /\ alast' = [op |-> "insert", item |-> item, before |-> arr, out |-> <<>>]
    /\ UNCHANGED <<treeVars, storeVars, lockVars>>

ArrDelete(item) ==
    /\ arr' = delete(arr, item)
    /\ alast' = [op |-> "delete", item |-> item, before |-> arr, out |-> <<>>]
    /\ UNCHANGED <<treeVars, storeVars, lockVars>>

ArrShouldBe(item) ==
    /\ alast' = [op |-> "shouldBe", item |-> item, before |-> arr,
                 out |-> shouldBe(arr, item)]
    /\ UNCHANGED <<arr, treeVars, storeVars, lockVars>>

NextArray ==
    \/ \E item \in ArrItems : ArrInsert(item)
    \/ \E item \in ArrItems : ArrDelete(item)
    \/ \E item \in ArrItems : ArrShouldBe(item)

SpecArray == Init /\ [][NextArray]_vars

\* ------------------------------------------------------------ node.sync
\* the block size of the store the nodes are synced to: the smallest whose
\* data area holds bs, the TreeTotal bytes of a node
SyncBlockSize == TreeTotal + 7
SyncBuf == [i \in 1..SyncBlockSize |-> 0]

elemMax == (TreeTotal - 6) \div 2

\* el.Bytes(n.elemMax())[0]: the key alone when key and value pass max
BytesHead(d) ==
    IF Len(d.Key) + Len(d.Val) > elemMax THEN d.Key ELSE d.Key \o d.Val

SyncPanic(w) == [w |-> w, err |-> "panic", panic |-> TRUE]

\* the end of sync: Acquire(1) and Put for a node without a block, Put of a
\* single block at n.block otherwise
syncStore(w, h, n, bs, pos) ==
    IF h[n].block = 0
    THEN LET a == Acquire(w, 1) IN
         IF a.panic THEN SyncPanic(a.w)
         ELSE IF a.err # "" THEN Err(a.w, a.err)
         ELSE IF Len(a.blocks) = 0 THEN SyncPanic(a.w)      \* blocks[0]
         ELSE PutBlocks(a.w, [a.blocks EXCEPT ![1].Data = bs])
    ELSE PutBlocks(w, <<Block(TypeSingle, 0, bs, pos, h[n].block, FALSE)>>)

\* node.sync: [w, err, panic]; the node itself is never written
RECURSIVE sync(_, _, _, _)
RECURSIVE syncElems(_, _, _, _, _, _, _)

\* the loop over n.elems from element i (1-based), bs filled up to pos
syncElems(w, h, n, i, pos, bs, fuel) ==
    IF i > Len(h[n].elems) THEN syncStore(w, h, n, bs, pos)
    ELSE LET p == h[n].elems[i]
             size == PairSize(p.data)
         IN IF pos + size > TreeTotal THEN SyncPanic(w)     \* bs[pos:pos+size]
            ELSE LET bs1 == Overwrite(bs, pos, SubSeq(BytesHead(p.data), 1, size))
                     c == IF p.after # 0 THEN sync(w, h, p.after, fuel - 1)
                          ELSE Ok(w)
                     after == IF p.after # 0 THEN h[p.after].block ELSE 0
                 IN IF c.panic THEN c
                    ELSE IF pos + size + 4 > TreeTotal THEN SyncPanic(c.w)
                    ELSE syncElems(c.w, h, n, i + 1, pos + size + 4,
                                   Overwrite(bs1, pos + size, U32be(after)), fuel)

sync(w, h, n, fuel) ==
    IF fuel = 0 THEN SyncPanic(w)
    ELSE IF h[n].synced THEN Ok(w)
    ELSE LET f == IF h[n].first # 0 THEN sync(w, h, h[n].first, fuel - 1)
                  ELSE Ok(w)
             first == IF h[n].first # 0 THEN h[h[n].first].block ELSE 0
             bs == U32be(first) \o U16be(TreeTotal)
                      \o [j \in 1..(TreeTotal - 6) |-> 0]
         IN IF f.panic THEN f
            ELSE syncElems(f.w, h, n, 1, 6, bs, fuel)

\* New(rwsNew).Create(V010000, SyncBlockSize)
SyncCreate ==
    /\ ~panicked /\ ops < MaxSyncOps /\ ~s.prepared
    /\ LET r == Create(World(NewStore, disk, SyncBuf), V010000, SyncBlockSize) IN
       /\ Leaves(r)
       /\ slast' = SLast("Create", SyncBlockSize, FALSE, r.err, <<>>)
    /\ UNCHANGED <<plan, planLen, planFresh>>

SyncOp == [op |-> "sync", key |-> <<>>, res |-> NotFound]

\* n.sync(store) for a node n of the tree
Sync(n) ==
    /\ ~panicked /\ ops < MaxSyncOps
    /\ \E r \in {sync(W, nodes, n, Fuel(nodes))} :
          /\ s' = r.w.s
          /\ disk' = r.w.disk
          /\ pagebuf' = r.w.buf
          /\ panicked' = r.panic
          /\ slast' = SLast("sync", n, FALSE, r.err, <<>>)
    /\ pre' = [s |-> s, disk |-> disk]
    /\ ops' = ops + 1
    /\ last' = SyncOp
    /\ UNCHANGED <<nodes, root, contents, beforeDel, dels, plan, planLen,
                   planFresh, lockVars, arrayVars>>

\* btree.syncNode after n.sync(t.blocks), r being what sync returned
syncNode(r) == IF r.panic THEN r ELSE [r EXCEPT !.err = ""]

\* t.syncNode(n) for a node n of the tree; out keeps what n.sync returned
SyncNode(n) ==
    /\ ~panicked /\ ops < MaxSyncOps
    /\ \E r \in {sync(W, nodes, n, Fuel(nodes))} :
          /\ s' = r.w.s
          /\ disk' = r.w.disk
          /\ pagebuf' = r.w.buf
          /\ panicked' = r.panic
          /\ slast' = SLast("syncNode", n, FALSE, syncNode(r).err, <<r.err>>)
    /\ pre' = [s |-> s, disk |-> disk]
    /\ ops' = ops + 1
    /\ last' = SyncOp
    /\ UNCHANGED <<nodes, root, contents, beforeDel, dels, plan, planLen,
                   planFresh, lockVars, arrayVars>>

\* the image of a node without elements and without a first child
EmptyImage == U32be(0) \o U16be(TreeTotal) \o [j \in 1..(TreeTotal - 6) |-> 0]

\* block idx holds data: it was written and is not a free block
InUse(idx) == idx >= 1 /\ idx <= s.total /\ DiskType(s, disk, idx) > TypeEmpty

\* the Put that sync issues for a node with block = idx: one single block,
\* made by the caller, at a block that is in use
SRewrite(idx) ==
    /\ ~panicked /\ ops < MaxSyncOps
    /\ InUse(idx)
    /\ LET r == PutBlocks(W, <<Block(TypeSingle, 0, EmptyImage, 6, idx, FALSE)>>) IN
       /\ Leaves(r)
       /\ slast' = SLast("Rewrite", idx, FALSE, r.err, <<>>)
    /\ UNCHANGED <<plan, planLen, planFresh>>

\* the keys in ascending order as in TestNode_del, a store, syncs of any node
NextSync ==
    \/ \E i \in 0..(NumSyncKeys - 1) :
          /\ i = Grown
          /\ Put(KeyOf(i), KeyOf(i))
          /\ UNCHANGED <<storeVars, lockVars, arrayVars>>
    \/ SyncCreate
    \/ \E n \in InTree : Sync(n)
    \/ \E n \in InTree : SyncNode(n)
    \/ \E idx \in 1..MaxSyncOps : SRewrite(idx)

SpecSync == Init /\ [][NextSync]_vars

\* a sync of the node slast.arg has returned nil and nothing has changed the
\* tree since
Synced ==
    ~panicked /\ last = SyncOp /\ slast.op = "sync" /\ slast.err = ""

\* C30: after a sync of a node that succeeded, with no mutation since, the
\* node is marked synced, and a second sync of it leaves the block store's
\* struct (total) and the file as they are.
C30_SyncIdempotent ==
    /\ [](Synced => nodes[slast.arg].synced)
    /\ [][(Synced /\ ops' = ops + 1 /\ slast'.op = "sync"
             /\ slast'.arg = slast.arg)
          => (s' = s /\ disk' = disk)]_vars

\* the first-child field of the image in block idx, as the file holds it
ImageFirst(idx) ==
    LET hl == IF DiskType(s, disk, idx) = TypeChained THEN 7 ELSE 3 IN
    BeU32(<<DiskByte(s, disk, idx, hl), DiskByte(s, disk, idx, hl + 1),
            DiskByte(s, disk, idx, hl + 2), DiskByte(s, disk, idx, hl + 3)>>)

\* C31: after a successful sync of a node whose block was 0 the node's block
\* field holds the index of the block its image was written to (the block
\* allocated last), the nodes below it hold distinct block indices, and the
\* first-child field of the written image is the block of the first child,
\* non-zero when the child exists.
C31_SyncRecordsBlock ==
    Synced =>
        LET n == slast.arg
            sub == Below(nodes, n, Len(nodes) + 1)
        IN /\ nodes[n].block # 0
           /\ nodes[n].block = s.total
           /\ \A a, b \in sub : a # b => nodes[a].block # nodes[b].block
           /\ nodes[n].first # 0 =>
                 /\ ImageFirst(nodes[n].block) # 0
                 /\ ImageFirst(nodes[n].block) = nodes[nodes[n].first].block

\* the children of n in the order sync visits them
RECURSIVE AfterChildren(_)
AfterChildren(elems) ==
    IF elems = <<>> THEN <<>>
    ELSE (IF Head(elems).after # 0 THEN <<Head(elems).after>> ELSE <<>>)
            \o AfterChildren(Tail(elems))
Children(h, n) ==
    (IF h[n].first # 0 THEN <<h[n].first>> ELSE <<>>) \o AfterChildren(h[n].elems)

\* the first error a sync of a child returns while the children cs are synced
\* one after the other from the world w ("" when none fails)
RECURSIVE ChildErr(_, _, _)
ChildErr(w, h, cs) ==
    IF cs = <<>> THEN ""
    ELSE LET r == sync(w, h, Head(cs), Fuel(h)) IN
         IF r.err # "" THEN r.err ELSE ChildErr(r.w, h, Tail(cs))

\* C32: a sync of n in which the sync of a child fails returns that error,
\* and syncNode returns the error that sync returned.
C32_SyncErrorsSurface ==
    /\ [][(ops' = ops + 1 /\ slast'.op = "sync" /\ ~panicked'
             /\ ChildErr(W, nodes, Children(nodes, slast'.arg)) # "")
          => slast'.err = ChildErr(W, nodes, Children(nodes, slast'.arg))]_vars
    /\ []((slast.op = "syncNode" /\ ~panicked) => slast.err = slast.out[1])

\* the bytes sync writes for n: the header, and per element its bytes and the
\* index of its after child
ImageSize(h, n) == 6 + sumSizes(h[n].elems) + 4 * Len(h[n].elems)

\* C33: the image of every node of the tree that does not overflow fits in
\* the TreeTotal bytes sync allocates, and a sync of nodes that do not
\* overflow does not panic on its buffer.
C33_ImageFits ==
    /\ ~panicked =>
          \A n \in InTree : ~overflow(nodes, n) => ImageSize(nodes, n) <= TreeTotal
    /\ (last = SyncOp
          /\ \A n \in Below(nodes, slast.arg, Len(nodes) + 1) : ~overflow(nodes, n))
       => ~panicked

\* C34: Put of a single non-allocate block at the index of a block in use
\* succeeds, overwrites that block and leaves freeHead, freeTail and total as
\* they were.
C34_RewriteInPlace ==
    (slast.op = "Rewrite" /\ ~panicked) =>
        /\ slast.err = ""
        /\ s.freeHead = pre.s.freeHead
        /\ s.freeTail = pre.s.freeTail
        /\ s.total = pre.s.total
        /\ GetBlock(W, slast.arg).block.Data = EmptyImage

\* C35: after a Put that returned an error the struct's freeHead, freeTail
\* and total are what they were before the call, and equal the metadata
\* record of the file.
C35_FailedPutChangesNothing ==
    (slast.op = "Put" /\ slast.err # "" /\ ~panicked /\ pre.s.prepared) =>
        /\ SameFields(s, pre.s)
        /\ MetaFreeHead(disk) = s.freeHead
        /\ MetaFreeTail(disk) = s.freeTail
        /\ MetaTotal(disk) = s.total

\* C36: the metadata record of a file made by Create(V010000, blockSize)
\* carries version 1.0.0 after every later Open, Put and Erase, so a Close
\* followed by Open of the file succeeds.
C36_VersionKept ==
    (~panicked /\ s.prepared) =>
        /\ Len(disk.meta) >= 20
        /\ SubSeq(disk.meta, 15, 20) = V010000
        /\ Open(World(NewStore, disk, ZeroBuf)).err = ""

\* From(idx) ends for every block index
FromEnds == \A idx \in 0..MaxIdx : From(W, idx).err # "loop"

\* From of the first block of the plan that Put has just written returns the
\* blocks of the plan in order, the last one being the first that is not
\* Chained or has next 0
FromReturnsPlan ==
    LET f == From(W, plan[1].idx) IN
    /\ f.err = ""
    /\ Len(f.blocks) = Len(plan)
    /\ \A i \in 1..Len(plan) :
          /\ f.blocks[i].idx = plan[i].idx
          /\ f.blocks[i].Type = plan[i].Type
          /\ f.blocks[i].Next = plan[i].Next
          /\ f.blocks[i].Data = SliceOf(plan, planLen, i)
          /\ i < Len(plan) =>
                f.blocks[i].Type = TypeChained /\ f.blocks[i].Next # 0

\* C37: From ends for every block index of a store built by Create, Acquire,
\* Put and Erase, and for the chain that Put wrote from an unmodified Acquire
\* plan it returns exactly the blocks of the plan in order.
C37_FromFollowsChain ==
    (s.prepared /\ ~panicked) =>
        /\ FromEnds
        /\ (PutOfFreshPlan /\ plan # <<>>) => FromReturnsPlan

\* the depths at which the subtree of n has a leaf, n being at depth d
RECURSIVE LeafDepths(_, _, _, _)
LeafDepths(h, n, d, fuel) ==
    IF n = 0 \/ fuel = 0 THEN {}
    ELSE IF leaf(h, n) THEN {d}
    ELSE LeafDepths(h, h[n].first, d + 1, fuel - 1)
            \cup UNION {LeafDepths(h, h[n].elems[i].after, d + 1, fuel - 1) :
                           i \in 1..Len(h[n].elems)}

\* C38: after any sequence of Put and Del all leaves of the tree are at the
\* same depth.
C38_Balance ==
    (~panicked /\ root # 0) =>
        Cardinality(LeafDepths(nodes, root, 0, Len(nodes) + 1)) <= 1

\* ----------------------------------------------------------- array claims
\* no element of a is greater than the one after it
NonDescending(a) ==
    \A i \in 1..(Len(a) - 1) : ElemCompare(a[i], a[i + 1]) <= 0

\* the 0-based indices of a that hold an element equal to item
Hits(a, item) == {i \in 0..(Len(a) - 1) : ElemCompare(At(a, i), item) = 0}

\* the sample of array_test.go: "132", "200", "321", "330", "399", "550", "880"
Sample ==
    [i \in 1..7 |->
        Elem(SK(<< <<1, 3, 2>>, <<2, 0, 0>>, <<3, 2, 1>>, <<3, 3, 0>>,
                   <<3, 9, 9>>, <<5, 5, 0>>, <<8, 8, 0>> >>[i]), 0)]

RECURSIVE insertAll(_, _)
insertAll(a, items) ==
    IF items = <<>> THEN a
    ELSE insertAll(insert(a, Head(items)), Tail(items))

\* Test_array_Insert: the sample inserted in the order 6, 4, 1, 3, 5, 2, 0
TestInsert ==
    insertAll(<<>>, [j \in 1..7 |-> At(Sample, <<6, 4, 1, 3, 5, 2, 0>>[j])])
        = Sample

\* Test_array_Delete: the first, a middle and the last element of the sample
TestDelete ==
    /\ delete(Sample, At(Sample, 0)) = Slice(Sample, 1, 7)
    /\ delete(Sample, At(Sample, 3)) = Slice(Sample, 0, 3) \o Slice(Sample, 4, 7)
    /\ delete(Sample, At(Sample, 6)) = Slice(Sample, 0, 6)

\* C39: insert keeps the array in ascending order whatever the order of the
\* insertions and adds exactly the inserted item; delete removes exactly one
\* element equal to its argument, at the first, a middle or the last position,
\* keeps the others in their order and leaves the array as it is when no
\* element is equal; the sample of the tests comes out as the tests say.
C39_InsertDeleteKeepOrder ==
    /\ NonDescending(arr)
    /\ alast.op = "insert" =>
          \E i \in 0..Len(alast.before) :
              arr = insertAt(alast.before, i, alast.item)
    /\ alast.op = "delete" =>
          IF Hits(alast.before, alast.item) = {}
          THEN arr = alast.before
          ELSE \E i \in Hits(alast.before, alast.item) :
                  arr = RemoveAt(alast.before, i)
    /\ TestInsert
    /\ TestDelete

\* delete has removed an element from the middle of an array of at least three
\* that inserts have built
C39_Witness ==
    /\ alast.op = "delete"
    /\ Len(alast.before) >= 3
    /\ \E i \in 1..(Len(alast.before) - 2) :
          /\ i \in Hits(alast.before, alast.item)
          /\ arr = RemoveAt(alast.before, i)
    /\ Len(arr) = Len(alast.before) - 1

\* the number of elements of a that are less than item
Less(a, item) ==
    Cardinality({i \in 0..(Len(a) - 1) : ElemCompare(At(a, i), item) < 0})

\* shouldBe has just answered for a sorted array
AfterShouldBe == alast.op = "shouldBe" /\ NonDescending(alast.before)

\* what shouldBe answers whether or not the array holds equal elements: pos is
\* in [0, len], exactly says whether an equal element exists, and without one
\* pos is the number of elements less than item
ShouldBeAnswer ==
    /\ alast.out.pos \in 0..Len(alast.before)
    /\ alast.out.exactly <=> Hits(alast.before, alast.item) # {}
    /\ ~alast.out.exactly => alast.out.pos = Less(alast.before, alast.item)

\* shouldBe(x) on a sorted array returns pos in [0, len] with exactly = true
\* iff an element equal to x exists; when exactly, pos is the leftmost index
\* that holds an element equal to x, also when the array holds duplicates, and
\* otherwise pos is the number of elements less than x.
C40_LeftmostHit ==
    AfterShouldBe =>
        /\ ShouldBeAnswer
        /\ alast.out.exactly =>
              /\ alast.out.pos \in Hits(alast.before, alast.item)
              /\ \A i \in Hits(alast.before, alast.item) : alast.out.pos <= i

\* C40: shouldBe(x) on a sorted array returns pos in [0, len] with exactly =
\* true iff an element equal to x exists; when exactly, pos is an index that
\* holds an element equal to x, the leftmost one when the array holds x once,
\* and otherwise pos is the number of elements less than x.
C40_ShouldBe ==
    AfterShouldBe =>
        /\ ShouldBeAnswer
        /\ alast.out.exactly =>
              alast.out.pos \in Hits(alast.before, alast.item)

\* shouldBe has answered for an array that holds the item three times, and
\* the index it returned is the one in the middle
C40_Witness ==
    /\ AfterShouldBe
    /\ alast.out.exactly
    /\ Cardinality(Hits(alast.before, alast.item)) = 3
    /\ \E i \in Hits(alast.before, alast.item) : i < alast.out.pos

\* ------------------------------------------------------ whole program
Next ==
    NextTree \/ NextStore \/ NextFiles \/ NextLock \/ NextGrown \/ NextTall
        \/ NextArray \/ NextSync
Spec == Init /\ [][Next]_vars

====
